---- MODULE Spec2Model ----
(***************************************************************************)
(* SecureMed authentication engine (backend/authentication): password      *)
(* login with lockout, TOTP multi-factor login with a signed short-lived   *)
(* ticket, one-time recovery codes, invite-only registration, and the      *)
(* role gate applied to every request.                                     *)
(*                                                                         *)
(* Time is Unix time in seconds.  An optional value (a nullable column, a  *)
(* missing JSON key) is a set: {} is None, {x} is the value x.             *)
(***************************************************************************)
EXTENDS Integers, Sequences, FiniteSets, TLC

(***************************************************************************)
(* Program constants                                                       *)
(***************************************************************************)
MAX_FAILED_ATTEMPTS == 5
LOCKOUT_DURATION_MINUTES == 15
TEMP_TOKEN_MINUTES == 5
TOTP_INTERVAL == 30
VERIFY_WINDOW == 1
DEACTIVATE_WINDOW == 3
LOGIN_WINDOW == 6
RECOVERY_COUNT == 10
RECOVERY_LENGTH == 8
ALPHABET_SIZE == 36
INVITE_HOURS == 48
MIN_PASSWORD_LENGTH == 12

(***************************************************************************)
(* Bounds of the model                                                     *)
(***************************************************************************)
StartTime == 3010       \* the Unix time at which the model starts
MaxTime == 1200         \* the clock stops advancing after this many seconds past the start
NumSecrets == 2         \* outcomes of pyotp.random_base32()
NumStreams == 2         \* outcomes of the secrets.choice() stream
CodeSpace == 23         \* number of distinct TOTP code values
TickSeconds == 150      \* seconds that pass between two requests, when any
MaxDrift == 7           \* steps an authenticator's clock is off by, at most
SessionLifetime == 86400 \* lifetime of a session token (settings are not part of the sources)
NumWorkers == 2         \* server workers handling requests at the same time
MaxInvites == 2         \* invitations ever issued
ElapseHours == 48       \* hours that pass at once while invitations age
MaxHours == 96          \* invitations stop ageing this many hours past the start

None == {}
Some(x) == {x}
Val(opt) == CHOOSE x \in opt : TRUE

UserIds == {1}
Username(u) == "lockout_victim"
Email(u) == "lockout_victim@test.com"
Secrets == 1..NumSecrets
Codes == 0..(CodeSpace - 1)
Streams == 1..NumStreams

VARIABLES
    now,        \* timezone.now() / time.time()
    users,      \* the users table: id -> row
    issued,     \* payloads of the tokens signed with SECRET_KEY that clients hold
    req,        \* the latest request, until time passes
    resp,       \* the response returned for it
    handed,     \* per user, the recovery codes last shown to the user in plain text
    before,     \* history: the users table as that request found it
    streak,     \* history: per user, Some(n) after n wrong-password logins in a
                \* row that began with no failure counted and no lock, else None
    accounts,   \* the users table, identity and role columns: id -> row
    invitations,\* the invitations table: token -> row
    procs,      \* per server worker, the request it is handling and its locals
    call,       \* the latest call answered by a worker or by the role gate
    deleted     \* the ids of the users and the tokens of the invitations deleted

authvars == <<now, users, issued, req, resp, handed, before, streak>>
regvars == <<accounts, invitations, procs, call, deleted>>
vars == <<now, users, issued, req, resp, handed, before, streak,
          accounts, invitations, procs, call, deleted>>

(***************************************************************************)
(* django.contrib.auth.hashers: a salted one-way hash.  The encoded value  *)
(* names the algorithm and the salt; checking re-encodes the raw value     *)
(* with that salt and compares.                                            *)
(***************************************************************************)
make_password(raw, salt) == <<"pbkdf2_sha256", salt, <<"digest", salt, raw>>>>

check_password(raw, encoded) == encoded = make_password(raw, encoded[2])

User_check_password(user, raw) == check_password(raw, user.password)

CorrectPassword == "CorrectP@ssw0rd123"
WrongPassword == "WrongP@ssw0rd999"

(***************************************************************************)
(* Requests and responses.  Every request and response has the same        *)
(* fields; a field a request does not carry is "" and one a response does  *)
(* not carry is None.                                                      *)
(***************************************************************************)
Request(op, identifier, password, temp_token, otp, recovery_code) ==
    [op |-> op, identifier |-> identifier, password |-> password,
     temp_token |-> temp_token, otp |-> otp, recovery_code |-> recovery_code]

NoRequest == Request("none", "", "", None, None, <<>>)

Response(status, error) ==
    [status |-> status, error |-> error, tokens |-> FALSE, temp_token |-> None,
     recovery_codes |-> <<>>, remaining |-> None, secret |-> None]

NoResponse == Response(0, "")

(***************************************************************************)
(* Signed tokens.  A token is its payload and the key that signed it.      *)
(***************************************************************************)
Payload(type, token_type, user_id, exp) ==
    [type |-> type, token_type |-> token_type, user_id |-> user_id, exp |-> exp]

Token(payload, key) == [payload |-> payload, key |-> key]

\* rest_framework_simplejwt: RefreshToken.for_user(user).access_token
\* (a session token outlives every run of the model)
get_tokens_for_user(u, t) == Payload(None, Some("access"), u, StartTime + MaxTime + SessionLifetime)

generate_temp_token(u, t) ==
    Payload(Some("mfa_temp"), None, u, t + TEMP_TOKEN_MINUTES * 60)

Tickets(toks) == {p \in toks : p.type = Some("mfa_temp")}
Sessions(toks) == toks \ Tickets(toks)

\* The client keeps what it is given: the ticket of its latest login attempt,
\* and the session token it first obtained.
Keep(toks, p) ==
    IF p.type = Some("mfa_temp") THEN Sessions(toks) \cup {p}
    ELSE IF Sessions(toks) = {} THEN toks \cup {p}
    ELSE toks

(***************************************************************************)
(* User.objects.get(email=...) / get(username=...)                         *)
(***************************************************************************)
Lookup(username_or_email) ==
    IF username_or_email \in {Email(u) : u \in UserIds}
    THEN {u \in UserIds : Email(u) = username_or_email}
    ELSE {u \in UserIds : Username(u) = username_or_email}

(***************************************************************************)
(* login_view: POST /api/auth/login                                        *)
(***************************************************************************)
LockedResponse == Response(403, "Account is locked")
TooManyResponse == Response(403, "Too many failed attempts. Account locked")
InvalidCredentials == Response(401, "Invalid credentials")

\* if user.failed_login_attempts > MAX_FAILED_ATTEMPTS
LockThreshold_AtMax(attempts) == attempts >= MAX_FAILED_ATTEMPTS

LockThreshold(attempts) == attempts > MAX_FAILED_ATTEMPTS

\* if user.locked_until and user.locked_until > timezone.now()
IsLocked_Never(user, t) == FALSE

IsLocked_Inverted(user, t) == user.locked_until # None /\ Val(user.locked_until) < t

IsLocked(user, t) == user.locked_until # None /\ Val(user.locked_until) > t

\* if user.locked_until and user.locked_until <= timezone.now()
LockExpired_Strict(user, t) == user.locked_until # None /\ Val(user.locked_until) < t

LockExpired(user, t) == user.locked_until # None /\ Val(user.locked_until) <= t

\* user.failed_login_attempts = 0; user.locked_until = None
ResetLockout_CountOnly(user) == [user EXCEPT !.failed_login_attempts = 0]

ResetLockout_LockOnly(user) == [user EXCEPT !.locked_until = None]

ResetLockout(user) == [user EXCEPT !.locked_until = None, !.failed_login_attempts = 0]

\* remaining_attempts = MAX_FAILED_ATTEMPTS - user.failed_login_attempts + 1
remaining_attempts_NoPlusOne(attempts) == MAX_FAILED_ATTEMPTS - attempts

remaining_attempts(attempts) == MAX_FAILED_ATTEMPTS - attempts + 1

NextStreak(user, s, password) ==
    LET base == IF user.failed_login_attempts = 0 /\ user.locked_until = None
                THEN Some(0) ELSE s
    IN  IF User_check_password(user, password) \/ base = None THEN None
        ELSE Some(IF Val(base) < 7 THEN Val(base) + 1 ELSE 7)

login_view(username_or_email, password) ==
    /\ req' = Request("login", username_or_email, password, None, None, <<>>)
    /\ before' = users
    /\ UNCHANGED handed
    /\ streak' = IF username_or_email = "" \/ password = "" \/ Lookup(username_or_email) = {}
                 THEN streak
                 ELSE [u \in UserIds |->
                         IF u \in Lookup(username_or_email)
                         THEN NextStreak(users[u], streak[u], password) ELSE streak[u]]
    /\ UNCHANGED now
    /\ IF username_or_email = "" \/ password = ""
       THEN \* serializer.is_valid() fails
            /\ resp' = Response(400, "validation")
            /\ UNCHANGED <<users, issued>>
       ELSE IF Lookup(username_or_email) = {}
       THEN /\ resp' = InvalidCredentials
            /\ UNCHANGED <<users, issued>>
       ELSE LET u == Val(Lookup(username_or_email))
                user == users[u]
            IN  IF IsLocked(user, now)
                THEN /\ resp' = [LockedResponse EXCEPT
                                   !.remaining = Some((Val(user.locked_until) - now) \div 60)]
                     /\ UNCHANGED <<users, issued>>
                ELSE LET user1 == IF LockExpired(user, now) THEN ResetLockout(user) ELSE user
                     IN  IF ~User_check_password(user1, password)
                         THEN LET n == user1.failed_login_attempts + 1
                              IN  IF LockThreshold(n)
                                  THEN /\ users' = [users EXCEPT ![u] =
                                             [user1 EXCEPT !.failed_login_attempts = n,
                                                           !.locked_until = Some(now + LOCKOUT_DURATION_MINUTES * 60)]]
                                       /\ resp' = TooManyResponse
                                       /\ UNCHANGED issued
                                  ELSE /\ users' = [users EXCEPT ![u] =
                                             [user1 EXCEPT !.failed_login_attempts = n]]
                                       /\ resp' = [InvalidCredentials EXCEPT
                                             !.remaining = Some(remaining_attempts(n))]
                                       /\ UNCHANGED issued
                         ELSE /\ users' = [users EXCEPT ![u] = ResetLockout(user1)]
                              /\ IF user1.mfa_enabled
                                 THEN LET ticket == generate_temp_token(u, now)
                                      IN  /\ resp' = [Response(200, "") EXCEPT
                                                !.temp_token = Some(Token(ticket, "SECRET_KEY"))]
                                          /\ issued' = Keep(issued, ticket)
                                 ELSE LET session == get_tokens_for_user(u, now)
                                      IN  /\ resp' = [Response(200, "") EXCEPT !.tokens = TRUE]
                                          /\ issued' = Keep(issued, session)

(***************************************************************************)
(* pyotp.  The HMAC-SHA1 truncation is a fixed pseudo-random function of   *)
(* the secret and the counter into the code values; two counters can give  *)
(* the same code.                                                          *)
(***************************************************************************)
generate_otp(secret, counter) ==
    ((counter + 3) * (counter + 5 * secret) + 7 * secret) % CodeSpace

timecode(t) == t \div TOTP_INTERVAL

TOTP_at(secret, t, counter_offset) == generate_otp(secret, timecode(t) + counter_offset)

\* for i in range(-valid_window, valid_window + 1)
TOTP_verify_HalfOpen(secret, otp, t, valid_window) ==
    \E i \in (0 - valid_window)..(valid_window - 1) : otp = TOTP_at(secret, t, i)

TOTP_verify(secret, otp, t, valid_window) ==
    \E i \in (0 - valid_window)..valid_window : otp = TOTP_at(secret, t, i)

(***************************************************************************)
(* generate_recovery_codes: count codes of length characters, each drawn   *)
(* by secrets.choice from the 36 uppercase letters and digits.  A stream   *)
(* is one outcome of the random source; stream 2 repeats itself.           *)
(***************************************************************************)
secrets_choice(stream, k) ==
    CASE stream = 1 -> (k + k \div ALPHABET_SIZE) % ALPHABET_SIZE
      [] stream = 2 -> (k % 40) % ALPHABET_SIZE
      [] OTHER -> (7 * k + 5 * (k \div ALPHABET_SIZE) + stream) % ALPHABET_SIZE

generate_recovery_codes(count, length, stream) ==
    [i \in 1..count |-> [j \in 1..length |-> secrets_choice(stream, (i - 1) * length + j)]]

\* [make_password(code) for code in plain_codes]: every hash gets a salt of its own
HashCodes(plain_codes, stream) ==
    [i \in 1..Len(plain_codes) |-> make_password(plain_codes[i], <<stream, i>>)]

\* list.pop(i)
Pop(list, i) == [k \in 1..(Len(list) - 1) |-> IF k < i THEN list[k] ELSE list[k + 1]]

\* for i, hashed_code in enumerate(...): if check_password(...): ... break
FirstMatch_First(recovery_code, hashed_codes) == 1

FirstMatch(recovery_code, hashed_codes) ==
    LET hits == {i \in 1..Len(hashed_codes) : check_password(recovery_code, hashed_codes[i])}
    IN  IF hits = {} THEN 0 ELSE CHOOSE i \in hits : \A k \in hits : i <= k

(***************************************************************************)
(* verify_temp_token: jwt.decode(token, SECRET_KEY, algorithms=['HS256'])  *)
(* and the type tag.  Returns the user id, or None.  PyJWT 1.x accepts a   *)
(* token at the very second of its exp claim and PyJWT 2.x rejects it:     *)
(* strict_exp says which library is installed.                             *)
(***************************************************************************)
Expired_Never(payload, t, strict_exp) == FALSE

Expired_Always(payload, t, strict_exp) == TRUE

Expired(payload, t, strict_exp) ==
    IF strict_exp THEN payload.exp <= t ELSE payload.exp < t

TypeTagOk_Any(payload) == TRUE

TypeTagOk(payload) == payload.type = Some("mfa_temp")

verify_temp_token(token, t, strict_exp) ==
    IF token.key # "SECRET_KEY" THEN None            \* DecodeError, InvalidSignatureError
    ELSE IF Expired(token.payload, t, strict_exp) THEN None   \* ExpiredSignatureError
    ELSE IF TypeTagOk(token.payload) THEN Some(token.payload.user_id)
    ELSE None

(***************************************************************************)
(* The authenticated MFA endpoints (permission IsAuthenticated): the       *)
(* request carries a session token of the user.                            *)
(***************************************************************************)
IsAuthenticated(u) == \E p \in Sessions(issued) : p.user_id = u /\ p.exp > now

\* serializers.CharField(max_length=6, min_length=6): a code that is not six
\* characters long is the value BadOtp
BadOtp == 0 - 1

\* mfa_setup_view: POST /api/auth/mfa/setup
mfa_setup_view(u, secret) ==
    /\ IsAuthenticated(u)
    /\ before' = users
    /\ UNCHANGED <<streak, handed>>
    /\ req' = Request("mfa_setup", Username(u), "", None, None, <<>>)
    /\ users' = [users EXCEPT ![u].mfa_secret = Some(secret)]
    /\ resp' = [Response(200, "") EXCEPT !.secret = Some(secret)]
    /\ UNCHANGED <<now, issued>>

\* user.mfa_enabled = True; user.mfa_recovery_codes = hashed_codes
Enrolled_CodesKept(user, hashed_codes) == [user EXCEPT !.mfa_enabled = TRUE]

Enrolled(user, hashed_codes) ==
    [user EXCEPT !.mfa_enabled = TRUE, !.mfa_recovery_codes = hashed_codes]

\* mfa_verify_view: POST /api/auth/mfa/verify
mfa_verify_view(u, otp, stream) ==
    /\ IsAuthenticated(u)
    /\ before' = users
    /\ UNCHANGED streak
    /\ req' = Request("mfa_verify", Username(u), "", None, Some(otp), <<>>)
    /\ UNCHANGED <<now, issued>>
    /\ LET user == users[u]
       IN  IF otp = BadOtp
           THEN /\ resp' = Response(400, "validation")
                /\ UNCHANGED users
           ELSE IF user.mfa_secret = None
           THEN /\ resp' = Response(400, "MFA not set up")
                /\ UNCHANGED users
           ELSE IF TOTP_verify(Val(user.mfa_secret), otp, now, VERIFY_WINDOW)
           THEN LET plain_codes == generate_recovery_codes(RECOVERY_COUNT, RECOVERY_LENGTH, stream)
                IN  /\ users' = [users EXCEPT ![u] = Enrolled(user, HashCodes(plain_codes, stream))]
                    /\ resp' = [Response(200, "MFA enabled successfully") EXCEPT
                          !.recovery_codes = plain_codes]
           ELSE /\ resp' = Response(400, "Invalid OTP code")
                /\ UNCHANGED users
    /\ handed' = IF resp'.status = 200 THEN [handed EXCEPT ![u] = resp'.recovery_codes] ELSE handed

\* MFADeactivateSerializer.validate / RegenerateRecoveryCodesSerializer.validate
PasswordAndMfaValid_PasswordOnly(user, password) == User_check_password(user, password)

PasswordAndMfaValid(user, password) ==
    User_check_password(user, password) /\ user.mfa_enabled

\* user.mfa_enabled = False; user.mfa_secret = None
Deactivated_EnabledKept(user) == [user EXCEPT !.mfa_secret = None]

Deactivated(user) == [user EXCEPT !.mfa_enabled = FALSE, !.mfa_secret = None]

\* mfa_deactivate_view: POST /api/auth/mfa/deactivate/
mfa_deactivate_view(u, password, otp) ==
    /\ IsAuthenticated(u)
    /\ before' = users
    /\ UNCHANGED <<streak, handed>>
    /\ req' = Request("mfa_deactivate", Username(u), password, None, Some(otp), <<>>)
    /\ UNCHANGED <<now, issued>>
    /\ LET user == users[u]
       IN  IF otp = BadOtp \/ password = "" \/ ~PasswordAndMfaValid(user, password)
           THEN /\ resp' = Response(400, "validation")
                /\ UNCHANGED users
           ELSE IF user.mfa_secret = None
           THEN /\ resp' = Response(400, "MFA secret not found")
                /\ UNCHANGED users
           ELSE IF ~TOTP_verify(Val(user.mfa_secret), otp, now, DEACTIVATE_WINDOW)
           THEN /\ resp' = Response(401, "Invalid OTP code")
                /\ UNCHANGED users
           ELSE /\ users' = [users EXCEPT ![u] = Deactivated(user)]
                /\ resp' = Response(200, "MFA deactivated successfully")

\* regenerate_recovery_codes_view: POST /api/auth/mfa/recovery-codes/regenerate/
regenerate_recovery_codes_view(u, password, stream) ==
    /\ IsAuthenticated(u)
    /\ before' = users
    /\ UNCHANGED streak
    /\ req' = Request("regenerate", Username(u), password, None, None, <<>>)
    /\ UNCHANGED <<now, issued>>
    /\ LET user == users[u]
       IN  IF password = "" \/ ~PasswordAndMfaValid(user, password)
           THEN /\ resp' = Response(400, "validation")
                /\ UNCHANGED users
           ELSE LET plain_codes == generate_recovery_codes(RECOVERY_COUNT, RECOVERY_LENGTH, stream)
                IN  /\ users' = [users EXCEPT ![u].mfa_recovery_codes = HashCodes(plain_codes, stream)]
                    /\ resp' = [Response(200, "") EXCEPT !.recovery_codes = plain_codes]
    /\ handed' = IF resp'.status = 200 THEN [handed EXCEPT ![u] = resp'.recovery_codes] ELSE handed

(***************************************************************************)
(* mfa_login_view: POST /api/auth/mfa/login                                *)
(* otp is None or Some(code); recovery_code is <<>> or a code.             *)
(***************************************************************************)
\* MFALoginSerializer: field lengths, then validate(): exactly one of the two
MFALoginValid_BothAllowed(otp, recovery_code) ==
    /\ otp # Some(BadOtp)
    /\ recovery_code = <<>> \/ Len(recovery_code) = RECOVERY_LENGTH
    /\ ~(otp = None /\ recovery_code = <<>>)

MFALoginValid(otp, recovery_code) ==
    /\ otp # Some(BadOtp)
    /\ recovery_code = <<>> \/ Len(recovery_code) = RECOVERY_LENGTH
    /\ ~(otp = None /\ recovery_code = <<>>)
    /\ ~(otp # None /\ recovery_code # <<>>)

TokensResponse == [Response(200, "") EXCEPT !.tokens = TRUE]

\* if not user.mfa_enabled or not user.mfa_secret
MfaConfigured_SecretOnly(user) == user.mfa_secret # None

MfaConfigured(user) == user.mfa_enabled /\ user.mfa_secret # None

mfa_login_view(temp_token, otp, recovery_code, strict_exp) ==
    /\ req' = Request("mfa_login", "", "", Some(temp_token), otp, recovery_code)
    /\ before' = users
    /\ UNCHANGED <<streak, handed>>
    /\ UNCHANGED now
    /\ IF ~MFALoginValid(otp, recovery_code)
       THEN /\ resp' = Response(400, "validation")
            /\ UNCHANGED <<users, issued>>
       ELSE LET user_id == verify_temp_token(temp_token, now, strict_exp)
            IN  IF user_id = None
                THEN /\ resp' = Response(401, "Invalid or expired temporary token")
                     /\ UNCHANGED <<users, issued>>
                ELSE IF Val(user_id) \notin UserIds
                THEN /\ resp' = Response(404, "User not found")
                     /\ UNCHANGED <<users, issued>>
                ELSE LET u == Val(user_id)
                         user == users[u]
                     IN  IF ~MfaConfigured(user)
                         THEN /\ resp' = Response(400, "MFA not enabled for this user")
                              /\ UNCHANGED <<users, issued>>
                         ELSE IF recovery_code # <<>>
                         THEN IF user.mfa_recovery_codes = <<>>
                              THEN /\ resp' = Response(400, "No recovery codes available")
                                   /\ UNCHANGED <<users, issued>>
                              ELSE LET i == FirstMatch(recovery_code, user.mfa_recovery_codes)
                                   IN  IF i = 0
                                       THEN /\ resp' = Response(401, "Invalid recovery code")
                                            /\ UNCHANGED <<users, issued>>
                                       ELSE /\ users' = [users EXCEPT ![u].mfa_recovery_codes =
                                                  Pop(user.mfa_recovery_codes, i)]
                                            /\ resp' = TokensResponse
                                            /\ issued' = Keep(issued, get_tokens_for_user(u, now))
                         ELSE IF TOTP_verify(Val(user.mfa_secret), Val(otp), now, LOGIN_WINDOW)
                         THEN /\ resp' = TokensResponse
                              /\ issued' = Keep(issued, get_tokens_for_user(u, now))
                              /\ UNCHANGED users
                         ELSE /\ resp' = Response(401, "Invalid OTP code")
                              /\ UNCHANGED <<users, issued>>

(***************************************************************************)
(* Time passes between requests.                                           *)
(***************************************************************************)
Tick(d) ==
    /\ now + d <= StartTime + MaxTime
    /\ now' = now + d
    /\ req' = NoRequest
    /\ resp' = NoResponse
    /\ before' = users
    /\ UNCHANGED <<users, issued, streak, handed>>

(***************************************************************************)
(* The state after seeding: one registered principal, MFA off.             *)
(***************************************************************************)
\* The recovery codes are a list-valued column of the principal, empty until
\* MFA is enabled (the views read and write user.mfa_recovery_codes and save it;
\* models.py does not declare the column).
DefaultRecoveryCodes == <<>>

NewUser(u) ==
    [password |-> make_password(CorrectPassword, <<"user", u>>),
     failed_login_attempts |-> 0,
     locked_until |-> None,
     mfa_enabled |-> FALSE,
     mfa_secret |-> None,
     mfa_recovery_codes |-> DefaultRecoveryCodes]

(***************************************************************************)
(* The identity and role columns of the users table.  `via` is history:    *)
(* the invitation token of the register call that created the row.         *)
(***************************************************************************)
Roles == {"patient", "provider", "admin"}

Account(username, email, password, role, via) ==
    [username |-> username, email |-> email,
     password |-> make_password(password, <<"user", username>>),
     role |-> role, groups |-> {}, is_active |-> TRUE, via |-> via]

\* BaseUserManager.normalize_email: the domain part is lower-cased
normalize_email(email) ==
    CASE email = "new@Example.com" -> "new@example.com"
      [] OTHER -> email

\* seed_users: the three default principals (no group is assigned)
SeedAdmin == 2
SeedDoctor == 3
SeedPatient == 4

SeededAccounts ==
    (SeedAdmin :> Account("admin_seed", "admin@securemed.com", "SecurePass123!@#", "admin", None))
    @@ (SeedDoctor :> Account("doctor_seed", "doctor@securemed.com", "SecurePass123!@#", "provider", None))
    @@ (SeedPatient :> Account("patient_seed", "patient@securemed.com", "SecurePass123!@#", "patient", None))

Workers == 1..NumWorkers

Idle == [pc |-> "idle"]

\* the latest call answered: what was asked, by whom, and the answer
Call(op, caller, path, token, email, status, error, user) ==
    [op |-> op, caller |-> caller, path |-> path, token |-> token, email |-> email,
     status |-> status, error |-> error, user |-> user]

NoCall == Call("none", None, <<>>, None, "", 0, "", None)

Init ==
    /\ accounts = (1 :> Account(Username(1), Email(1), CorrectPassword, "patient", None))
                     @@ SeededAccounts
    /\ invitations = <<>>
    /\ procs = [w \in Workers |-> Idle]
    /\ call = NoCall
    /\ deleted = [users |-> {}, invitations |-> {}]
    /\ now = StartTime
    /\ users = [u \in UserIds |-> NewUser(u)]
    /\ issued = {}
    /\ req = NoRequest
    /\ resp = NoResponse
    /\ handed = [u \in UserIds |-> <<>>]
    /\ before = users
    /\ streak = [u \in UserIds |-> Some(0)]

(***************************************************************************)
(* What clients send.                                                      *)
(***************************************************************************)
Identifiers == {"lockout_victim", "lockout_victim@test.com", "nobody", ""}
Passwords == {CorrectPassword, WrongPassword, ""}

\* tokens a client can present: the ones it was given, and the payload of a
\* fresh ticket signed with another key
ForgedTicket(u) == Token(generate_temp_token(u, now), "attacker key")

TokenInputs ==
    {Token(p, "SECRET_KEY") : p \in issued} \cup {ForgedTicket(u) : u \in UserIds}

\* codes a client can present: what an authenticator holding secret s shows
\* when its clock is off by up to MaxDrift steps, and a malformed code
Drifts == {0 - MaxDrift, 0 - 6, 0 - 1, 0, 1, 6, MaxDrift}
OtpShown(s) == {TOTP_at(s, now, i) : i \in Drifts}

\* the code the user's own authenticator shows now
OtpNow(u) ==
    IF users[u].mfa_secret = None THEN {} ELSE {TOTP_at(Val(users[u].mfa_secret), now, 0)}

\* recovery codes a client can present: the ones it was shown, one never issued
NeverIssued == [j \in 1..RECOVERY_LENGTH |-> 0]

RecoveryInputs(u) == {handed[u][i] : i \in 1..Len(handed[u])} \cup {NeverIssued}

\* the first recovery code the client was shown
FirstCodes(u) == {handed[u][i] : i \in {1} \cap DOMAIN handed[u]}

(***************************************************************************)
(* SpecLockout: password login and the passing of time, on a principal     *)
(* who may enrol in MFA.                                                   *)
(***************************************************************************)
NextLockout ==
    /\ UNCHANGED regvars
    /\ \/ Tick(TickSeconds)
       \/ \E id \in Identifiers, pw \in Passwords : login_view(id, pw)
       \/ \E u \in UserIds : mfa_setup_view(u, 1)
       \/ \E u \in UserIds : \E otp \in OtpNow(u) : mfa_verify_view(u, otp, 1)

SpecLockout == Init /\ [][NextLockout]_vars

(***************************************************************************)
(* SpecMfa: the two-phase login with TOTP codes.                           *)
(***************************************************************************)
NextMfa ==
    /\ UNCHANGED regvars
    /\ \/ Tick(2 * TickSeconds)
       \/ login_view("lockout_victim", CorrectPassword)
       \/ \E u \in UserIds, s \in Secrets : mfa_setup_view(u, s)
       \/ \E u \in UserIds : \E otp \in OtpNow(u) : mfa_verify_view(u, otp, 1)
       \/ \E u \in UserIds : \E otp \in OtpNow(u) : mfa_deactivate_view(u, CorrectPassword, otp)
       \/ \E tok \in TokenInputs, strict \in BOOLEAN :
             \/ \E u \in UserIds : \E otp \in UNION {OtpShown(s) : s \in users[u].mfa_secret} \cup {BadOtp} :
                   mfa_login_view(tok, Some(otp), <<>>, strict)
             \/ \E u \in UserIds : \E rc \in {NeverIssued} \cup {handed[u][i] : i \in {1} \cap DOMAIN handed[u]} :
                   mfa_login_view(tok, None, rc, strict)

SpecMfa == Init /\ [][NextMfa]_vars

(***************************************************************************)
(* SpecRecovery: enrolment and login with recovery codes.                  *)
(***************************************************************************)
NextRecovery ==
    /\ UNCHANGED regvars
    /\ \/ login_view("lockout_victim", CorrectPassword)
       \/ \E u \in UserIds : mfa_setup_view(u, 1)
       \/ \E u \in UserIds, st \in Streams : \E otp \in OtpNow(u) : mfa_verify_view(u, otp, st)
       \/ \E p \in issued, u \in UserIds : \E rc \in RecoveryInputs(u) :
             mfa_login_view(Token(p, "SECRET_KEY"), None, rc, TRUE)

SpecRecovery == Init /\ [][NextRecovery]_vars

(***************************************************************************)
(* The actions of the admin site on the users table (UserAdmin.actions).   *)
(***************************************************************************)
\* User.is_account_locked
is_account_locked(user, t) == user.locked_until # None /\ Val(user.locked_until) > t

\* User.unlock_account: save(update_fields=['locked_until', 'failed_login_attempts'])
unlock_account(user) == [user EXCEPT !.locked_until = None, !.failed_login_attempts = 0]

\* UserAdmin.unlock_accounts on the selected principal
UserAdmin_unlock_accounts(u) ==
    /\ req' = Request("unlock_accounts", Username(u), "", None, None, <<>>)
    /\ resp' = Response(200, "Successfully unlocked")
    /\ before' = users
    /\ users' = [users EXCEPT ![u] =
           IF is_account_locked(@, now) THEN unlock_account(@) ELSE @]
    /\ streak' = [streak EXCEPT ![u] = None]
    /\ UNCHANGED <<now, issued, handed>>

\* UserAdmin.reset_failed_attempts: queryset.update(failed_login_attempts=0)
UserAdmin_reset_failed_attempts(u) ==
    /\ req' = Request("reset_failed_attempts", Username(u), "", None, None, <<>>)
    /\ resp' = Response(200, "Successfully reset failed login attempts")
    /\ before' = users
    /\ users' = [users EXCEPT ![u].failed_login_attempts = 0]
    /\ streak' = [streak EXCEPT ![u] = None]
    /\ UNCHANGED <<now, issued, handed>>

(***************************************************************************)
(* SpecAdmin: password login, MFA enrolment and the admin site's actions   *)
(* on one principal.                                                       *)
(***************************************************************************)
NextAdmin ==
    /\ UNCHANGED regvars
    /\ \/ Tick(TickSeconds)
       \/ \E pw \in {CorrectPassword, WrongPassword} : login_view("lockout_victim", pw)
       \/ \E u \in UserIds : mfa_setup_view(u, 1)
       \/ \E u \in UserIds : \E otp \in OtpNow(u) : mfa_verify_view(u, otp, 1)
       \/ \E u \in UserIds : \E otp \in OtpNow(u) : mfa_deactivate_view(u, CorrectPassword, otp)
       \/ \E u \in UserIds : regenerate_recovery_codes_view(u, CorrectPassword, 1)
       \/ \E tok \in TokenInputs, u \in UserIds : \E otp \in OtpNow(u) :
             mfa_login_view(tok, Some(otp), <<>>, TRUE)
       \/ \E u \in UserIds : UserAdmin_unlock_accounts(u)
       \/ \E u \in UserIds : UserAdmin_reset_failed_attempts(u)

SpecAdmin == Init /\ [][NextAdmin]_vars

(***************************************************************************)
(* SpecManage: the management of a principal's second factor, with right   *)
(* and wrong passwords and with codes inside and outside the windows.      *)
(***************************************************************************)
\* codes a client can present to the authenticated endpoints: what an
\* authenticator holding any of the secrets shows, and a malformed code
OtpInputs == UNION {OtpShown(s) : s \in Secrets} \cup {BadOtp}

\* the first and the last recovery code of every list the server can have handed out
EverIssued ==
    {generate_recovery_codes(RECOVERY_COUNT, RECOVERY_LENGTH, st)[i] :
        st \in Streams, i \in {1, RECOVERY_COUNT}}

NextManage ==
    /\ UNCHANGED regvars
    /\ \/ login_view("lockout_victim", CorrectPassword)
       \/ \E u \in UserIds, s \in Secrets : mfa_setup_view(u, s)
       \/ \E u \in UserIds, otp \in OtpInputs : mfa_verify_view(u, otp, 1)
       \/ \E u \in UserIds, pw \in {CorrectPassword, WrongPassword}, otp \in OtpInputs :
             mfa_deactivate_view(u, pw, otp)
       \/ \E u \in UserIds, pw \in Passwords, st \in Streams :
             regenerate_recovery_codes_view(u, pw, st)
       \/ \E p \in Tickets(issued) :
             \/ \E otp \in OtpInputs : mfa_login_view(Token(p, "SECRET_KEY"), Some(otp), <<>>, TRUE)
             \/ \E rc \in EverIssued : mfa_login_view(Token(p, "SECRET_KEY"), None, rc, TRUE)
       \/ \E tok \in TokenInputs :
             \/ mfa_login_view(tok, None, <<>>, TRUE)
             \/ \E u \in UserIds : \E otp \in OtpNow(u) : mfa_login_view(tok, Some(otp), <<>>, TRUE)
             \/ \E u \in UserIds : \E otp \in OtpNow(u), rc \in FirstCodes(u) :
                   mfa_login_view(tok, Some(otp), rc, TRUE)

SpecManage == Init /\ [][NextManage]_vars

(***************************************************************************)
(* Invitations: SendInviteView, seed_users, update_role                    *)
(***************************************************************************)
Invitation(email, sent_by, t) ==
    [email |-> email, sent_by |-> sent_by,
     expires_at |-> t + INVITE_HOURS * 3600,    \* Invitation.save
     is_used |-> FALSE, used_at |-> None, used_by |-> None]

\* request.user.groups.filter(name='Admin').exists()
InAdminGroup_ByGroupOrRole(a) == "Admin" \in accounts[a].groups \/ accounts[a].role = "admin"

InAdminGroup(a) == "Admin" \in accounts[a].groups

\* request.user.role != 'admin'
IsAdminRole_Anyone(a) == TRUE

IsAdminRole(a) == accounts[a].role = "admin"

\* uuid.uuid4: a token no invitation has or had
FreshToken == Cardinality(DOMAIN invitations) + Cardinality(deleted.invitations) + 1

\* SendInviteView.post: POST /api/auth/invite/send/ by the authenticated caller
SendInviteView_post(caller, email) ==
    /\ caller \in DOMAIN accounts
    /\ FreshToken <= MaxInvites
    /\ UNCHANGED <<authvars, deleted, accounts, procs>>
    /\ LET answer(status, error, token) ==
               Call("invite", Some(caller), <<"api", "auth", "invite", "send", "">>,
                    token, email, status, error, None)
       IN  IF ~InAdminGroup(caller)
           THEN /\ call' = answer(403, "Access denied. Admin role required.", None)
                /\ UNCHANGED invitations
           ELSE IF email = ""
           THEN /\ call' = answer(400, "Email is required", None)
                /\ UNCHANGED invitations
           ELSE IF \E a \in DOMAIN accounts : accounts[a].email = email
           THEN /\ call' = answer(400, "User with this email already exists", None)
                /\ UNCHANGED invitations
           ELSE IF \E k \in DOMAIN invitations :
                      /\ invitations[k].email = email
                      /\ ~invitations[k].is_used
                      /\ invitations[k].expires_at > now
           THEN /\ call' = answer(400, "An active invitation already exists for this email",
                                  Some(CHOOSE k \in DOMAIN invitations :
                                          /\ invitations[k].email = email
                                          /\ ~invitations[k].is_used
                                          /\ invitations[k].expires_at > now))
                /\ UNCHANGED invitations
           ELSE /\ invitations' = invitations @@ (FreshToken :> Invitation(email, caller, now))
                /\ call' = answer(201, "", Some(FreshToken))

\* UserRoleUpdateSerializer.update: role_to_group
role_to_group(role) ==
    CASE role = "patient" -> "Patient"
      [] role = "provider" -> "Doctor"
      [] role = "admin" -> "Admin"

\* UserManagementViewSet.update_role: PATCH /api/auth/users/{pk}/role/
update_role(caller, pk, role) ==
    /\ caller \in DOMAIN accounts
    /\ UNCHANGED <<authvars, deleted, invitations, procs>>
    /\ LET answer(status, error) ==
               Call("update_role", Some(caller), <<"api", "auth", "users", pk, "role", "">>,
                    None, "", status, error, Some(pk))
       IN  IF ~IsAdminRole(caller)
           THEN /\ call' = answer(403, "Forbidden: Admin access required")
                /\ UNCHANGED accounts
           ELSE IF pk \notin DOMAIN accounts
           THEN /\ call' = answer(404, "Not found")
                /\ UNCHANGED accounts
           ELSE IF pk = caller
           THEN /\ call' = answer(400, "Cannot change your own role")
                /\ UNCHANGED accounts
           ELSE IF role \notin Roles
           THEN /\ call' = answer(400, "validation")
                /\ UNCHANGED accounts
           ELSE LET old_role == accounts[pk].role
                    groups == accounts[pk].groups
                IN  /\ accounts' = [accounts EXCEPT ![pk] =
                          [@ EXCEPT !.role = role,
                                    !.groups = IF old_role # role
                                               THEN (groups \ {role_to_group(old_role)})
                                                       \cup {role_to_group(role)}
                                               ELSE groups]]
                    /\ call' = answer(200, "")

\* manage.py seed_users, run again: the role of each default principal that
\* exists is set back; groups are left as they are
seed_users ==
    /\ UNCHANGED <<authvars, deleted, invitations, procs>>
    /\ accounts' = [a \in DOMAIN accounts |->
                      IF a \in DOMAIN SeededAccounts
                      THEN [accounts[a] EXCEPT !.role = SeededAccounts[a].role]
                      ELSE accounts[a]]
    /\ call' = Call("seed_users", None, <<>>, None, "", 0, "", None)

(***************************************************************************)
(* register_view: POST /api/auth/register.  A worker runs the handler in   *)
(* four steps, each one query or write against the database; other workers *)
(* may run between any two of them (no transaction, no row lock).          *)
(***************************************************************************)
\* a password, as far as the validators look at it
Password(text, length, special) == [text |-> text, length |-> length, special |-> special]

Payload_register(username, email, password, password_confirm, role, captcha) ==
    [username |-> username, email |-> email, password |-> password,
     password_confirm |-> password_confirm, role |-> role, captcha |-> captcha]

\* if timezone.now() > invitation.expires_at
InvitationExpired_Never(invitation, t) == FALSE

InvitationExpired(invitation, t) == t > invitation.expires_at

\* if request.data.get('email') != invitation.email
EmailMismatch_Normalized(email, invitation) ==
    normalize_email(email) # normalize_email(invitation.email)

EmailMismatch(email, invitation) == email # invitation.email

\* UserRegistrationSerializer.is_valid(): field validators, UniqueValidator on
\* username and email, validate_password, validate_captcha_token, validate
PasswordValid_LengthOnly(password) == password.length >= MIN_PASSWORD_LENGTH

PasswordValid(password) == password.length >= MIN_PASSWORD_LENGTH /\ password.special

UserRegistrationSerializer_is_valid(data) ==
    /\ data.username # ""
    /\ ~\E a \in DOMAIN accounts : accounts[a].username = data.username
    /\ data.email # ""
    /\ ~\E a \in DOMAIN accounts : accounts[a].email = data.email
    /\ PasswordValid(data.password)
    /\ data.role \subseteq Roles
    /\ data.captcha
    /\ data.password = data.password_confirm

\* the unique indexes on users.username and users.email
UniqueViolated_Never(username, email) == FALSE

UniqueViolated(username, email) ==
    \E a \in DOMAIN accounts :
        accounts[a].username = username \/ accounts[a].email = email

\* the AutoField id: one the users table never gave out
NewId == Cardinality(DOMAIN accounts) + Cardinality(deleted.users) + 1

Answer_register(w, token, data, status, error, user) ==
    Call("register", None, <<"api", "auth", "register", "">>, token, data.email,
         status, error, user)

\* token = request.data.get('token') ... Invitation.objects.get(token=token)
\* and the checks of the invitation
register_view_check(w, token, data) ==
    /\ procs[w] = Idle
    /\ UNCHANGED <<authvars, deleted, accounts, invitations>>
    /\ IF token = None
       THEN /\ call' = Answer_register(w, token, data, 400,
                          "Invitation token is required for registration", None)
            /\ UNCHANGED procs
       ELSE IF Val(token) \notin DOMAIN invitations
       THEN /\ call' = Answer_register(w, token, data, 404, "Invalid invitation token", None)
            /\ UNCHANGED procs
       ELSE LET invitation == invitations[Val(token)]
            IN  IF invitation.is_used
                THEN /\ call' = Answer_register(w, token, data, 400,
                                   "This invitation has already been used", None)
                     /\ UNCHANGED procs
                ELSE IF InvitationExpired(invitation, now)
                THEN /\ call' = Answer_register(w, token, data, 400,
                                   "This invitation has expired", None)
                     /\ UNCHANGED procs
                ELSE IF EmailMismatch(data.email, invitation)
                THEN /\ call' = Answer_register(w, token, data, 400,
                                   "Email does not match invitation", None)
                     /\ UNCHANGED procs
                ELSE /\ procs' = [procs EXCEPT ![w] =
                           [pc |-> "checked", token |-> token, data |-> data, user |-> None]]
                     /\ UNCHANGED call

\* serializer = UserRegistrationSerializer(data=request.data); serializer.is_valid()
register_view_validate(w) ==
    /\ procs[w].pc = "checked"
    /\ UNCHANGED <<authvars, deleted, accounts, invitations>>
    /\ IF UserRegistrationSerializer_is_valid(procs[w].data)
       THEN /\ procs' = [procs EXCEPT ![w].pc = "valid"]
            /\ UNCHANGED call
       ELSE /\ procs' = [procs EXCEPT ![w] = Idle]
            /\ call' = Answer_register(w, procs[w].token, procs[w].data, 400, "validation", None)

\* user = serializer.save(): UserRegistrationSerializer.create, create_user
register_view_save(w) ==
    /\ procs[w].pc = "valid"
    /\ UNCHANGED <<authvars, deleted, invitations>>
    /\ LET data == procs[w].data
           email == normalize_email(data.email)
           role == IF data.role = None THEN "patient" ELSE Val(data.role)
       IN  IF UniqueViolated(data.username, email)
           THEN \* IntegrityError: the request ends in a server error
                /\ procs' = [procs EXCEPT ![w] = Idle]
                /\ call' = Answer_register(w, procs[w].token, data, 500, "IntegrityError", None)
                /\ UNCHANGED accounts
           ELSE /\ accounts' = accounts @@
                      (NewId :> Account(data.username, email, data.password.text, role, procs[w].token))
                /\ procs' = [procs EXCEPT ![w].pc = "saved", ![w].user = Some(NewId)]
                /\ UNCHANGED call

\* invitation.mark_as_used(user), then the 201 response
register_view_mark(w) ==
    /\ procs[w].pc = "saved"
    /\ UNCHANGED <<authvars, deleted, accounts>>
    /\ invitations' = [invitations EXCEPT ![Val(procs[w].token)] =
           [@ EXCEPT !.is_used = TRUE, !.used_at = Some(now), !.used_by = procs[w].user]]
    /\ procs' = [procs EXCEPT ![w] = Idle]
    /\ call' = Answer_register(w, procs[w].token, procs[w].data, 201, "", procs[w].user)

\* the worker is killed, or the connection to the database is lost, after the
\* principal was saved and before the invitation is marked
register_view_fail(w) ==
    /\ procs[w].pc = "saved"
    /\ UNCHANGED <<authvars, deleted, accounts, invitations>>
    /\ procs' = [procs EXCEPT ![w] = Idle]
    /\ call' = Answer_register(w, procs[w].token, procs[w].data, 500, "server error", procs[w].user)

\* invitations age while no request is being handled (a request takes far
\* less than a step of the clock)
Elapse ==
    /\ \A w \in Workers : procs[w] = Idle
    /\ now + ElapseHours * 3600 <= StartTime + MaxHours * 3600
    /\ now' = now + ElapseHours * 3600
    /\ call' = NoCall
    /\ UNCHANGED <<users, issued, req, resp, handed, before, streak,
                   accounts, invitations, procs, deleted>>

(***************************************************************************)
(* SpecRegister: invitations, registration by concurrent workers, roles.   *)
(***************************************************************************)
GoodPassword == Password("SecurePass123!@#", 16, TRUE)
ShortPassword == Password("Short1!", 7, TRUE)
PlainPassword == Password("NoSpecialChars123", 17, FALSE)

InviteEmails == {"new@example.com", "new@Example.com"}

\* registration payloads: well-formed ones, and one for each way to be refused
GoodPayloads ==
    {Payload_register("newuser", e, GoodPassword, GoodPassword, None, TRUE) : e \in InviteEmails}
    \cup {Payload_register("other", "new@example.com", GoodPassword, GoodPassword, None, TRUE)}

\* what the other workers are sent: well-formed, for the same email
OtherPayloads == {data \in GoodPayloads : data.email = "new@example.com"}

RegisterPayloads ==
    GoodPayloads
    \cup {Payload_register("lockout_victim", "new@example.com", GoodPassword, GoodPassword, None, TRUE),
          Payload_register("newuser", "new@example.com", ShortPassword, ShortPassword, None, TRUE),
          Payload_register("newuser", "new@example.com", PlainPassword, PlainPassword, None, TRUE),
          Payload_register("newuser", "new@example.com", GoodPassword, PlainPassword, None, TRUE),
          Payload_register("newuser", "new@example.com", GoodPassword, GoodPassword, None, FALSE)}

UnknownToken == MaxInvites + 1

TokensPresented == {None, Some(UnknownToken)} \cup {Some(k) : k \in DOMAIN invitations}

NextRegister ==
    \/ Elapse
    \/ update_role(SeedAdmin, 1, "admin")
    \/ \E email \in InviteEmails : SendInviteView_post(1, email)
    \/ \E token \in TokensPresented :
          \/ \E data \in RegisterPayloads : register_view_check(1, token, data)
          \/ \E w \in Workers \ {1}, data \in OtherPayloads : register_view_check(w, token, data)
    \/ \E w \in Workers : register_view_validate(w)
    \/ \E w \in Workers : register_view_save(w)
    \/ \E w \in Workers : register_view_mark(w)
    \/ \E w \in Workers : register_view_fail(w)

SpecRegister == Init /\ [][NextRegister]_vars

(***************************************************************************)
(* verify_invite_view, and the deletion of a principal.                    *)
(***************************************************************************)
\* if invitation.is_used
InvitationUsed_Never(invitation) == FALSE

InvitationUsed(invitation) == invitation.is_used

\* verify_invite_view: POST /api/auth/invite/verify/ (AllowAny)
verify_invite_view(token) ==
    /\ UNCHANGED <<authvars, deleted, accounts, invitations, procs>>
    /\ LET answer(status, error, email) ==
               Call("verify", None, <<"api", "auth", "invite", "verify", "">>,
                    token, email, status, error, None)
       IN  IF token = None
           THEN call' = answer(400, "Token is required", "")
           ELSE IF Val(token) \notin DOMAIN invitations
           THEN call' = answer(404, "Invalid invitation token", "")
           ELSE LET invitation == invitations[Val(token)]
                IN  IF InvitationUsed(invitation)
                    THEN call' = answer(400, "This invitation has already been used", "")
                    ELSE IF now > invitation.expires_at
                    THEN call' = answer(400, "This invitation has expired", "")
                    ELSE call' = answer(200, "Invitation is valid", invitation.email)

\* Invitation.sent_by: on_delete=models.CASCADE
Cascade(pk) == {k \in DOMAIN invitations : invitations[k].sent_by = pk}

\* Invitation.used_by: on_delete=models.SET_NULL
SetNull(invitation, pk) ==
    IF invitation.used_by = Some(pk) THEN [invitation EXCEPT !.used_by = None] ELSE invitation

\* The users table is registered with the admin site (UserAdmin), whose
\* "delete selected" action and delete view remove a row: User.delete() with
\* the on_delete rules of the rows that refer to it.
User_delete(pk) ==
    /\ pk \in DOMAIN accounts
    /\ \A w \in Workers : procs[w] = Idle
    /\ accounts' = [a \in DOMAIN accounts \ {pk} |-> accounts[a]]
    /\ invitations' = [k \in DOMAIN invitations \ Cascade(pk) |-> SetNull(invitations[k], pk)]
    /\ deleted' = [users |-> deleted.users \cup {pk},
                   invitations |-> deleted.invitations \cup Cascade(pk)]
    /\ call' = Call("delete", None, <<"admin", "authentication", "user", "">>, None,
                    accounts[pk].email, 200, "", Some(pk))
    /\ UNCHANGED <<authvars, procs>>

(***************************************************************************)
(* SpecInvite: the life of invitations: issued, verified, redeemed, aged,  *)
(* and what becomes of them when a principal is deleted.                   *)
(***************************************************************************)
NextInvite ==
    \/ Elapse
    \/ update_role(SeedAdmin, 1, "admin")
    \/ \E email \in InviteEmails : SendInviteView_post(1, email)
    \/ \E token \in TokensPresented : verify_invite_view(token)
    \/ \E token \in TokensPresented, data \in GoodPayloads : register_view_check(1, token, data)
    \/ register_view_validate(1)
    \/ register_view_save(1)
    \/ register_view_mark(1)
    \/ \E pk \in DOMAIN accounts \ {SeedAdmin, SeedDoctor, SeedPatient} : User_delete(pk)

SpecInvite == Init /\ [][NextInvite]_vars

(***************************************************************************)
(* RoleMiddleware: the role gate every request passes before its handler.  *)
(* A path is the sequence of its segments; a trailing slash leaves an      *)
(* empty last segment ("/api/doctor/" is <<"api", "doctor", "">>).         *)
(***************************************************************************)
\* str.lower
lower(role) ==
    CASE role = "Patient" -> "patient"
      [] role = "Provider" -> "provider"
      [] role = "Admin" -> "admin"
      [] OTHER -> role

\* path.startswith('/api/<area>/')
startswith_NoSlash(path, prefix) ==
    Len(path) >= Len(prefix) /\ SubSeq(path, 1, Len(prefix)) = prefix

startswith(path, prefix) ==
    Len(path) > Len(prefix) /\ SubSeq(path, 1, Len(prefix)) = prefix

\* JWTAuthentication().authenticate(request): the user of a valid access
\* token; None without a header, and on any exception
JWTAuthentication_authenticate_Unverified(bearer) ==
    IF bearer = None THEN None
    ELSE LET token == Val(bearer)
         IN  IF token.payload.user_id \in DOMAIN accounts
             THEN Some(token.payload.user_id)
             ELSE None

JWTAuthentication_authenticate(bearer) ==
    IF bearer = None THEN None
    ELSE LET token == Val(bearer)
         IN  IF /\ token.key = "SECRET_KEY"
                /\ token.payload.token_type = Some("access")
                /\ token.payload.exp > now
                /\ token.payload.user_id \in DOMAIN accounts
                /\ accounts[token.payload.user_id].is_active
             THEN Some(token.payload.user_id)
             ELSE None

\* if not request.user.is_authenticated: return self.get_response(request)
SkipsGate_Never(user) == FALSE

SkipsGate(user) == user = None

\* the three rules, in the order the middleware applies them
Forbidden_DoctorRuleOnAll(path, role) ==
    IF startswith(path, <<"api">>) /\ role # "provider"
    THEN Some("Forbidden: Doctor Access Only")
    ELSE None

Forbidden(path, role) ==
    IF startswith(path, <<"api", "doctor">>) /\ role # "provider"
    THEN Some("Forbidden: Doctor Access Only")
    ELSE IF startswith(path, <<"api", "patient">>) /\ role # "patient"
    THEN Some("Forbidden: Patient Access Only")
    ELSE IF startswith(path, <<"api", "admin">>) /\ role # "admin"
    THEN Some("Forbidden: Admin Access Only")
    ELSE None

\* self.get_response(request): the routes below the three prefixes and the
\* profile route require an authenticated user (IsAuthenticated)
Routes ==
    {<<"api", area, "test-dashboard", "">> : area \in {"doctor", "patient", "admin"}}
    \cup {<<"api", "auth", "user", "">>}

get_response(path, user) ==
    IF path \notin Routes THEN <<404, "Not found">>
    ELSE IF user = None THEN <<401, "Authentication credentials were not provided.">>
    ELSE <<200, "">>

\* RoleMiddleware.__call__
RoleMiddleware_call(bearer, path) ==
    /\ UNCHANGED <<authvars, deleted, accounts, invitations, procs>>
    /\ LET user == JWTAuthentication_authenticate(bearer)
           answer(r) == Call("request", user, path, bearer, "", r[1], r[2], None)
       IN  IF SkipsGate(user)
           THEN call' = answer(get_response(path, user))
           ELSE \* role = getattr(request.user, 'role', '').lower()
                LET role == IF user = None THEN "" ELSE lower(accounts[Val(user)].role)
                IN  IF Forbidden(path, role) # None
                    THEN call' = answer(<<403, Val(Forbidden(path, role))>>)
                    ELSE call' = answer(get_response(path, user))

(***************************************************************************)
(* SpecRoles: roles, groups, invitations and the role gate.                *)
(***************************************************************************)
Paths ==
    Routes \cup {<<"api", "doctor">>, <<"api", "doctors", "list", "">>}

\* what a client can put in the Authorization header: nothing, the access
\* token a login gives a principal, a token signed with another key, an MFA
\* ticket, the token of a principal that does not exist
Bearers ==
    {None}
    \cup {Some(Token(get_tokens_for_user(a, now), "SECRET_KEY")) : a \in {1, SeedAdmin, SeedDoctor}}
    \cup {Some(Token(get_tokens_for_user(SeedAdmin, now), "attacker key")),
          Some(Token(generate_temp_token(SeedAdmin, now), "SECRET_KEY")),
          Some(Token(get_tokens_for_user(0, now), "SECRET_KEY"))}

RoleInputs == Roles \cup {"nurse"}

NextRoles ==
    \/ seed_users
    \/ \E caller \in {1, SeedAdmin}, pk \in {1, SeedPatient, NewId}, role \in RoleInputs :
          update_role(caller, pk, role)
    \/ \E caller \in DOMAIN accounts, email \in {"new@example.com", ""} :
          SendInviteView_post(caller, email)
    \/ \E token \in TokensPresented, role \in {None, Some("admin")} :
          register_view_check(1, token,
              Payload_register("newuser", "new@example.com", GoodPassword, GoodPassword, role, TRUE))
    \/ register_view_validate(1)
    \/ register_view_save(1)
    \/ register_view_mark(1)
    \/ \E bearer \in Bearers, path \in Paths : RoleMiddleware_call(bearer, path)

SpecRoles == Init /\ [][NextRoles]_vars

(***************************************************************************)
(* login_view handled by concurrent workers.  The handler loads the row    *)
(* (User.objects.get), works on its in-memory copy and writes the copy     *)
(* back with user.save(); nothing locks the row in between.                *)
(***************************************************************************)
\* serializer.is_valid() and User.objects.get(...)
login_view_get(w, username_or_email, password) ==
    /\ procs[w] = Idle
    /\ UNCHANGED <<now, users, issued, handed, accounts, invitations, call, deleted>>
    /\ IF username_or_email = "" \/ password = ""
       THEN /\ req' = Request("login", username_or_email, password, None, None, <<>>)
            /\ resp' = Response(400, "validation")
            /\ before' = users
            /\ UNCHANGED <<procs, streak>>
       ELSE IF Lookup(username_or_email) = {}
       THEN /\ req' = Request("login", username_or_email, password, None, None, <<>>)
            /\ resp' = InvalidCredentials
            /\ before' = users
            /\ UNCHANGED <<procs, streak>>
       ELSE /\ procs' = [procs EXCEPT ![w] =
                  [pc |-> "login", identifier |-> username_or_email, password |-> password,
                   id |-> Val(Lookup(username_or_email)),
                   user |-> users[Val(Lookup(username_or_email))]]]
            /\ UNCHANGED <<req, resp, before, streak>>

\* the rest of the handler, on the copy loaded: lock test, reset of a lapsed
\* lock, password check, user.save()
login_view_save(w) ==
    /\ procs[w].pc = "login"
    /\ procs' = [procs EXCEPT ![w] = Idle]
    /\ req' = Request("login", procs[w].identifier, procs[w].password, None, None, <<>>)
    /\ before' = users
    /\ UNCHANGED <<now, handed, accounts, invitations, call, deleted>>
    /\ LET u == procs[w].id
           user == procs[w].user
           password == procs[w].password
       IN  /\ streak' = [streak EXCEPT ![u] =
                  IF User_check_password(user, password) /\ ~IsLocked(user, now) THEN Some(0)
                  ELSE IF User_check_password(user, password) \/ @ = None THEN @
                  ELSE Some(IF Val(@) < 7 THEN Val(@) + 1 ELSE 7)]
           /\ IF IsLocked(user, now)
              THEN /\ resp' = [LockedResponse EXCEPT
                                 !.remaining = Some((Val(user.locked_until) - now) \div 60)]
                   /\ UNCHANGED <<users, issued>>
              ELSE LET user1 == IF LockExpired(user, now) THEN ResetLockout(user) ELSE user
                   IN  IF ~User_check_password(user1, password)
                       THEN LET n == user1.failed_login_attempts + 1
                            IN  IF LockThreshold(n)
                                THEN /\ users' = [users EXCEPT ![u] =
                                           [user1 EXCEPT !.failed_login_attempts = n,
                                                         !.locked_until = Some(now + LOCKOUT_DURATION_MINUTES * 60)]]
                                     /\ resp' = TooManyResponse
                                     /\ UNCHANGED issued
                                ELSE /\ users' = [users EXCEPT ![u] =
                                           [user1 EXCEPT !.failed_login_attempts = n]]
                                     /\ resp' = [InvalidCredentials EXCEPT
                                           !.remaining = Some(remaining_attempts(n))]
                                     /\ UNCHANGED issued
                       ELSE /\ users' = [users EXCEPT ![u] = ResetLockout(user1)]
                            /\ IF user1.mfa_enabled
                               THEN LET ticket == generate_temp_token(u, now)
                                    IN  /\ resp' = [Response(200, "") EXCEPT
                                              !.temp_token = Some(Token(ticket, "SECRET_KEY"))]
                                        /\ issued' = Keep(issued, ticket)
                               ELSE /\ resp' = [Response(200, "") EXCEPT !.tokens = TRUE]
                                    /\ issued' = Keep(issued, get_tokens_for_user(u, now))

(***************************************************************************)
(* The MFA handlers handled by concurrent workers.  request.user is the   *)
(* row the authentication loaded when the request came in; the handler     *)
(* assigns to that copy and writes the whole copy back with user.save().   *)
(***************************************************************************)
\* what a worker holds while it handles a request on the row of user id
Handling(op, id, password, otp, recovery_code, temp_token, choice) ==
    [pc |-> op, id |-> id, user |-> users[id], password |-> password, otp |-> otp,
     recovery_code |-> recovery_code, temp_token |-> temp_token, choice |-> choice]

\* JWTAuthentication sets request.user
Authenticate(w, op, u, password, otp, choice) ==
    /\ procs[w] = Idle
    /\ IsAuthenticated(u)
    /\ procs' = [procs EXCEPT ![w] = Handling(op, u, password, otp, <<>>, None, choice)]
    /\ UNCHANGED <<authvars, accounts, invitations, call, deleted>>

\* the answer of a worker, and the end of its request
Answer(w, response) ==
    /\ req' = Request(procs[w].pc, Username(procs[w].id), procs[w].password,
                      procs[w].temp_token, procs[w].otp, procs[w].recovery_code)
    /\ resp' = response
    /\ before' = users
    /\ procs' = [procs EXCEPT ![w] = Idle]
    /\ UNCHANGED <<now, streak, accounts, invitations, call, deleted>>

\* user.save(): every column of the copy is written
Model_save(w, user) == users' = [users EXCEPT ![procs[w].id] = user]

mfa_setup_view_get(w, u, secret) == Authenticate(w, "mfa_setup", u, "", None, secret)

mfa_setup_view_save(w) ==
    /\ procs[w].pc = "mfa_setup"
    /\ Model_save(w, [procs[w].user EXCEPT !.mfa_secret = Some(procs[w].choice)])
    /\ Answer(w, [Response(200, "") EXCEPT !.secret = Some(procs[w].choice)])
    /\ UNCHANGED <<issued, handed>>

mfa_verify_view_get(w, u, otp, stream) == Authenticate(w, "mfa_verify", u, "", Some(otp), stream)

mfa_verify_view_save(w) ==
    /\ procs[w].pc = "mfa_verify"
    /\ UNCHANGED issued
    /\ LET user == procs[w].user
           otp == Val(procs[w].otp)
           stream == procs[w].choice
           plain_codes == generate_recovery_codes(RECOVERY_COUNT, RECOVERY_LENGTH, stream)
       IN  IF otp = BadOtp
           THEN Answer(w, Response(400, "validation")) /\ UNCHANGED <<users, handed>>
           ELSE IF user.mfa_secret = None
           THEN Answer(w, Response(400, "MFA not set up")) /\ UNCHANGED <<users, handed>>
           ELSE IF TOTP_verify(Val(user.mfa_secret), otp, now, VERIFY_WINDOW)
           THEN /\ Model_save(w, Enrolled(user, HashCodes(plain_codes, stream)))
                /\ Answer(w, [Response(200, "MFA enabled successfully") EXCEPT
                                 !.recovery_codes = plain_codes])
                /\ handed' = [handed EXCEPT ![procs[w].id] = plain_codes]
           ELSE Answer(w, Response(400, "Invalid OTP code")) /\ UNCHANGED <<users, handed>>

mfa_deactivate_view_get(w, u, password, otp) ==
    Authenticate(w, "mfa_deactivate", u, password, Some(otp), 0)

mfa_deactivate_view_save(w) ==
    /\ procs[w].pc = "mfa_deactivate"
    /\ UNCHANGED <<issued, handed>>
    /\ LET user == procs[w].user
           otp == Val(procs[w].otp)
           password == procs[w].password
       IN  IF otp = BadOtp \/ password = "" \/ ~PasswordAndMfaValid(user, password)
           THEN Answer(w, Response(400, "validation")) /\ UNCHANGED users
           ELSE IF user.mfa_secret = None
           THEN Answer(w, Response(400, "MFA secret not found")) /\ UNCHANGED users
           ELSE IF ~TOTP_verify(Val(user.mfa_secret), otp, now, DEACTIVATE_WINDOW)
           THEN Answer(w, Response(401, "Invalid OTP code")) /\ UNCHANGED users
           ELSE /\ Model_save(w, Deactivated(user))
                /\ Answer(w, Response(200, "MFA deactivated successfully"))

regenerate_recovery_codes_view_get(w, u, password, stream) ==
    Authenticate(w, "regenerate", u, password, None, stream)

regenerate_recovery_codes_view_save(w) ==
    /\ procs[w].pc = "regenerate"
    /\ UNCHANGED issued
    /\ LET user == procs[w].user
           password == procs[w].password
           stream == procs[w].choice
           plain_codes == generate_recovery_codes(RECOVERY_COUNT, RECOVERY_LENGTH, stream)
       IN  IF password = "" \/ ~PasswordAndMfaValid(user, password)
           THEN Answer(w, Response(400, "validation")) /\ UNCHANGED <<users, handed>>
           ELSE /\ Model_save(w, [user EXCEPT !.mfa_recovery_codes = HashCodes(plain_codes, stream)])
                /\ Answer(w, [Response(200, "") EXCEPT !.recovery_codes = plain_codes])
                /\ handed' = [handed EXCEPT ![procs[w].id] = plain_codes]

\* serializer.is_valid(), verify_temp_token and User.objects.get(id=user_id)
mfa_login_view_get(w, temp_token, otp, recovery_code, strict_exp) ==
    /\ procs[w] = Idle
    /\ UNCHANGED <<now, users, issued, handed, streak, accounts, invitations, call, deleted>>
    /\ LET user_id == verify_temp_token(temp_token, now, strict_exp)
           refuse(response) ==
               /\ req' = Request("mfa_login", "", "", Some(temp_token), otp, recovery_code)
               /\ resp' = response
               /\ before' = users
               /\ UNCHANGED procs
       IN  IF ~MFALoginValid(otp, recovery_code)
           THEN refuse(Response(400, "validation"))
           ELSE IF user_id = None
           THEN refuse(Response(401, "Invalid or expired temporary token"))
           ELSE IF Val(user_id) \notin UserIds
           THEN refuse(Response(404, "User not found"))
           ELSE /\ procs' = [procs EXCEPT ![w] =
                      Handling("mfa_login", Val(user_id), "", otp, recovery_code,
                               Some(temp_token), 0)]
                /\ UNCHANGED <<req, resp, before>>

\* the rest of the handler, on the copy loaded
mfa_login_view_save(w) ==
    /\ procs[w].pc = "mfa_login"
    /\ UNCHANGED handed
    /\ LET u == procs[w].id
           user == procs[w].user
           otp == procs[w].otp
           recovery_code == procs[w].recovery_code
           respond(response) ==
               /\ req' = Request("mfa_login", "", "", procs[w].temp_token, otp, recovery_code)
               /\ resp' = response
               /\ before' = users
               /\ procs' = [procs EXCEPT ![w] = Idle]
               /\ UNCHANGED <<now, streak, accounts, invitations, call, deleted>>
       IN  IF ~MfaConfigured(user)
           THEN respond(Response(400, "MFA not enabled for this user")) /\ UNCHANGED <<users, issued>>
           ELSE IF recovery_code # <<>>
           THEN IF user.mfa_recovery_codes = <<>>
                THEN /\ respond(Response(400, "No recovery codes available"))
                     /\ UNCHANGED <<users, issued>>
                ELSE LET i == FirstMatch(recovery_code, user.mfa_recovery_codes)
                     IN  IF i = 0
                         THEN /\ respond(Response(401, "Invalid recovery code"))
                              /\ UNCHANGED <<users, issued>>
                         ELSE /\ Model_save(w, [user EXCEPT !.mfa_recovery_codes =
                                                   Pop(user.mfa_recovery_codes, i)])
                              /\ respond(TokensResponse)
                              /\ issued' = Keep(issued, get_tokens_for_user(u, now))
           ELSE IF TOTP_verify(Val(user.mfa_secret), Val(otp), now, LOGIN_WINDOW)
           THEN /\ respond(TokensResponse)
                /\ issued' = Keep(issued, get_tokens_for_user(u, now))
                /\ UNCHANGED users
           ELSE respond(Response(401, "Invalid OTP code")) /\ UNCHANGED <<users, issued>>

(***************************************************************************)
(* SpecInterleave: the six handlers that write a principal's row.  One     *)
(* request is followed from the load of the row to its save (worker 1);    *)
(* the requests that arrive meanwhile are handled in between, each in one  *)
(* piece.  The loads change nothing, so every interleaving of two          *)
(* overlapping requests is one of these.                                   *)
(***************************************************************************)
NextInterleave ==
    \/ /\ UNCHANGED regvars
       /\ \/ login_view("lockout_victim", CorrectPassword)
          \/ \E u \in UserIds : mfa_setup_view(u, 1)
          \/ \E u \in UserIds : \E otp \in OtpNow(u) : mfa_verify_view(u, otp, 1)
          \/ \E u \in UserIds : \E otp \in OtpNow(u) : mfa_deactivate_view(u, CorrectPassword, otp)
          \/ \E u \in UserIds : regenerate_recovery_codes_view(u, CorrectPassword, 2)
          \/ \E p \in Tickets(issued), u \in UserIds :
                \/ \E otp \in OtpNow(u) : mfa_login_view(Token(p, "SECRET_KEY"), Some(otp), <<>>, TRUE)
                \/ \E rc \in FirstCodes(u) : mfa_login_view(Token(p, "SECRET_KEY"), None, rc, TRUE)
    \/ login_view_get(1, "lockout_victim", CorrectPassword)
    \/ login_view_save(1)
    \/ \E u \in UserIds : mfa_setup_view_get(1, u, 1)
    \/ mfa_setup_view_save(1)
    \/ \E u \in UserIds : \E otp \in OtpNow(u) : mfa_verify_view_get(1, u, otp, 1)
    \/ mfa_verify_view_save(1)
    \/ \E u \in UserIds : \E otp \in OtpNow(u) : mfa_deactivate_view_get(1, u, CorrectPassword, otp)
    \/ mfa_deactivate_view_save(1)
    \/ \E u \in UserIds : regenerate_recovery_codes_view_get(1, u, CorrectPassword, 2)
    \/ regenerate_recovery_codes_view_save(1)
    \/ \E p \in Tickets(issued), u \in UserIds :
          \/ \E otp \in OtpNow(u) : mfa_login_view_get(1, Token(p, "SECRET_KEY"), Some(otp), <<>>, TRUE)
          \/ \E rc \in FirstCodes(u) : mfa_login_view_get(1, Token(p, "SECRET_KEY"), None, rc, TRUE)
    \/ mfa_login_view_save(1)

SpecInterleave == Init /\ [][NextInterleave]_vars

(***************************************************************************)
(* SpecStale: logins and mfa_setup_view calls of one principal handled by  *)
(* concurrent workers.                                                     *)
(***************************************************************************)
NextStale ==
    \/ \E w \in Workers, pw \in {CorrectPassword, WrongPassword} :
          login_view_get(w, "lockout_victim", pw)
    \/ \E w \in Workers : login_view_save(w)
    \/ \E w \in Workers, u \in UserIds : mfa_setup_view_get(w, u, 1)
    \/ \E w \in Workers : mfa_setup_view_save(w)

SpecStale == Init /\ [][NextStale]_vars

(***************************************************************************)
(* SpecCodeRace: a principal enrols, logs in, and completes the login with *)
(* a recovery code in requests handled by concurrent workers.              *)
(***************************************************************************)
NextCodeRace ==
    \/ /\ UNCHANGED regvars
       /\ \/ login_view("lockout_victim", CorrectPassword)
          \/ \E u \in UserIds : mfa_setup_view(u, 1)
          \/ \E u \in UserIds : \E otp \in OtpNow(u) : mfa_verify_view(u, otp, 1)
    \/ \E w \in Workers, p \in Tickets(issued), u \in UserIds :
          \E rc \in {handed[u][i] : i \in {1, 2} \cap DOMAIN handed[u]} :
             mfa_login_view_get(w, Token(p, "SECRET_KEY"), None, rc, TRUE)
    \/ \E w \in Workers : mfa_login_view_save(w)

SpecCodeRace == Init /\ [][NextCodeRace]_vars

(***************************************************************************)
(* SpecRace: logins of one principal handled by concurrent workers.        *)
(***************************************************************************)
NextRace ==
    \/ \E w \in Workers, id \in {"lockout_victim", "nobody"}, pw \in {CorrectPassword, WrongPassword} :
          login_view_get(w, id, pw)
    \/ \E w \in Workers : login_view_save(w)

SpecRace == Init /\ [][NextRace]_vars

(***************************************************************************)
(* SpecLockRace: logins of one principal handled by concurrent workers     *)
(* while locks are set and lapse.                                          *)
(***************************************************************************)
NextLockRace ==
    \/ Tick(LOCKOUT_DURATION_MINUTES * 60) /\ UNCHANGED regvars
    \/ \E w \in Workers, pw \in {CorrectPassword, WrongPassword} :
          login_view_get(w, "lockout_victim", pw)
    \/ \E w \in Workers : login_view_save(w)

SpecLockRace == Init /\ [][NextLockRace]_vars

(***************************************************************************)
(* update_role handled by concurrent workers.  request.user is the row the *)
(* authentication loaded when the request came in; the handler tests the   *)
(* role of that copy, loads the target and saves it.                       *)
(***************************************************************************)
\* JWTAuthentication sets request.user
update_role_get(w, caller, pk, role) ==
    /\ procs[w] = Idle
    /\ caller \in DOMAIN accounts
    /\ procs' = [procs EXCEPT ![w] =
          [pc |-> "update_role", caller |-> caller, user |-> accounts[caller],
           pk |-> pk, role |-> role]]
    /\ UNCHANGED <<authvars, accounts, invitations, call, deleted>>

\* the handler: role test on request.user, get_object_or_404, self test,
\* UserRoleUpdateSerializer.update
update_role_save(w) ==
    /\ procs[w].pc = "update_role"
    /\ procs' = [procs EXCEPT ![w] = Idle]
    /\ UNCHANGED <<authvars, deleted, invitations>>
    /\ LET caller == procs[w].caller
           pk == procs[w].pk
           role == procs[w].role
           answer(status, error) ==
               Call("update_role", Some(caller), <<"api", "auth", "users", pk, "role", "">>,
                    None, "", status, error, Some(pk))
       IN  IF procs[w].user.role # "admin"
           THEN /\ call' = answer(403, "Forbidden: Admin access required")
                /\ UNCHANGED accounts
           ELSE IF pk \notin DOMAIN accounts
           THEN /\ call' = answer(404, "Not found")
                /\ UNCHANGED accounts
           ELSE IF pk = caller
           THEN /\ call' = answer(400, "Cannot change your own role")
                /\ UNCHANGED accounts
           ELSE IF role \notin Roles
           THEN /\ call' = answer(400, "validation")
                /\ UNCHANGED accounts
           ELSE LET old_role == accounts[pk].role
                    groups == accounts[pk].groups
                IN  /\ accounts' = [accounts EXCEPT ![pk] =
                          [@ EXCEPT !.role = role,
                                    !.groups = IF old_role # role
                                               THEN (groups \ {role_to_group(old_role)})
                                                       \cup {role_to_group(role)}
                                               ELSE groups]]
                    /\ call' = answer(200, "")

(***************************************************************************)
(* SpecRoleRace: administrators changing roles at the same time.           *)
(***************************************************************************)
NextRoleRace ==
    \/ \E w \in Workers, caller \in {1, SeedAdmin}, pk \in {1, SeedAdmin}, role \in {"admin", "patient"} :
          update_role_get(w, caller, pk, role)
    \/ \E w \in Workers : update_role_save(w)

SpecRoleRace == Init /\ [][NextRoleRace]_vars

(***************************************************************************)
(* Properties of the lockout policy (SpecLockout)                          *)
(***************************************************************************)
\* the latest request is a well-formed login naming principal u
IsLoginOn(u) ==
    /\ req.op = "login"
    /\ req.identifier # "" /\ req.password # ""
    /\ u \in Lookup(req.identifier)

LockedBefore(u) ==
    before[u].locked_until # None /\ now < Val(before[u].locked_until)

\* C1: counted from a principal with no failure recorded and no lock, each of
\* the first five wrong passwords in a row is answered 401 and leaves the
\* account unlocked; the sixth is answered 403 and locks it.
C1_SixStrikes ==
    \A u \in UserIds :
        (IsLoginOn(u) /\ streak[u] # None) =>
            /\ Val(streak[u]) \in 1..5 =>
                  /\ resp.status = 401
                  /\ users[u].locked_until = None
            /\ Val(streak[u]) = 6 =>
                  /\ resp.status = 403
                  /\ before[u].locked_until = None
                  /\ users[u].locked_until # None

C1_Witness ==
    \E u \in UserIds :
        /\ IsLoginOn(u) /\ streak[u] = Some(6)
        /\ resp.status = 403 /\ users[u].locked_until # None

\* C2: the failure that locks sets locked_until to now + 15 minutes, and a
\* login made while now < locked_until gets the 403 locked response, with no
\* tokens and no ticket, whatever the password.
C2_LockedRejectsAll ==
    \A u \in UserIds :
        IsLoginOn(u) =>
            /\ (before[u].locked_until = None /\ users[u].locked_until # None) =>
                  /\ users[u].locked_until = Some(now + 15 * 60)
                  /\ resp.status = 403
            /\ LockedBefore(u) =>
                  /\ resp.status = 403
                  /\ resp.error = "Account is locked"
                  /\ ~resp.tokens
                  /\ resp.temp_token = None

C2_Witness ==
    \E u \in UserIds :
        /\ IsLoginOn(u) /\ LockedBefore(u)
        /\ req.password = CorrectPassword
        /\ resp.status = 403

\* C3: a login that finds a lock that has run out (locked_until <= now) starts
\* from a clean record: a wrong password leaves one failure counted and no
\* lock, and the right password is accepted.
C3_LapsedLockResets ==
    \A u \in UserIds :
        (/\ IsLoginOn(u)
         /\ before[u].locked_until # None
         /\ Val(before[u].locked_until) <= now) =>
            IF req.password = CorrectPassword
            THEN /\ resp.status = 200
                 /\ users[u].failed_login_attempts = 0
                 /\ users[u].locked_until = None
            ELSE /\ resp.status = 401
                 /\ users[u].failed_login_attempts = 1
                 /\ users[u].locked_until = None

C3_Witness ==
    \E u \in UserIds :
        /\ IsLoginOn(u)
        /\ before[u].locked_until = Some(now)
        /\ req.password = WrongPassword
        /\ users[u].failed_login_attempts = 1

\* C4: a login whose password is accepted (right password, account not
\* locked) leaves failed_login_attempts = 0 and locked_until = null, whether
\* it answers with tokens or with an MFA ticket.
C4_SuccessZeroes ==
    \A u \in UserIds :
        (IsLoginOn(u) /\ req.password = CorrectPassword /\ ~LockedBefore(u)) =>
            /\ resp.status = 200
            /\ users[u].failed_login_attempts = 0
            /\ users[u].locked_until = None
            /\ IF before[u].mfa_enabled
               THEN resp.temp_token # None /\ ~resp.tokens
               ELSE resp.temp_token = None /\ resp.tokens

C4_Witness ==
    \E u \in UserIds :
        /\ IsLoginOn(u) /\ req.password = CorrectPassword
        /\ before[u].failed_login_attempts = 5
        /\ before[u].mfa_enabled
        /\ resp.temp_token # None
        /\ users[u].failed_login_attempts = 0

(***************************************************************************)
(* Properties of the two-phase login (SpecMfa)                             *)
(***************************************************************************)
\* the latest request is an MFA login that passes the serializer
IsMfaLogin ==
    /\ req.op = "mfa_login"
    /\ (req.otp = None) # (req.recovery_code = <<>>)
    /\ req.otp # Some(BadOtp)

Presented == Val(req.temp_token)

\* the presented token is a ticket of u: signed by the server, tagged
\* mfa_temp, and presented before its expiry
GoodTicket(u) ==
    /\ Presented.key = "SECRET_KEY"
    /\ Presented.payload.type = Some("mfa_temp")
    /\ Presented.payload.user_id = u
    /\ now <= Presented.payload.exp

\* the code is what the secret gives at a counter within w steps of the current one
InWindow(secret, otp, w) ==
    \E c \in (now \div 30 - w)..(now \div 30 + w) : otp = generate_otp(secret, c)

\* the code is the plain text of one of the stored hashes
IsStored(recovery_code, hashed_codes) ==
    \E i \in 1..Len(hashed_codes) : hashed_codes[i][3][3] = recovery_code

TokensFor(u) ==
    /\ resp.tokens
    /\ \/ req.op = "login" /\ u \in Lookup(req.identifier)
       \/ req.op = "mfa_login" /\ Presented.payload.user_id = u
       \/ req.op \notin {"login", "mfa_login"}

C6_BadTicketRejected ==
    (/\ IsMfaLogin
     /\ \/ Presented.key # "SECRET_KEY"
        \/ Presented.payload.exp < now
        \/ Presented.payload.type # Some("mfa_temp")) =>
        /\ resp.status = 401
        /\ ~resp.tokens
        /\ users = before

C6_Witness ==
    /\ IsMfaLogin
    /\ Presented.key = "SECRET_KEY"
    /\ Presented.payload.token_type = Some("access")
    /\ resp.status = 401

C6_WitnessExpired ==
    /\ IsMfaLogin
    /\ Presented.key = "SECRET_KEY"
    /\ Presented.payload.type = Some("mfa_temp")
    /\ Presented.payload.exp < now
    /\ resp.status = 401

\* C9: on a valid ticket, mfa_login_view accepts an OTP exactly when it is the
\* TOTP value of the principal's secret at a 30-second counter in
\* [current - 6, current + 6].
C9_LoginWindow ==
    \A u \in UserIds :
        (/\ IsMfaLogin /\ req.otp # None
         /\ GoodTicket(u) /\ now < Presented.payload.exp
         /\ before[u].mfa_enabled /\ before[u].mfa_secret # None) =>
            IF InWindow(Val(before[u].mfa_secret), Val(req.otp), 6)
            THEN resp.status = 200 /\ resp.tokens
            ELSE resp.status = 401 /\ resp.error = "Invalid OTP code" /\ ~resp.tokens

\* accepted at the edge of the window only
C9_Witness ==
    \E u \in UserIds :
        /\ IsMfaLogin /\ req.otp # None /\ GoodTicket(u)
        /\ before[u].mfa_enabled /\ before[u].mfa_secret # None
        /\ resp.tokens
        /\ Val(req.otp) = generate_otp(Val(before[u].mfa_secret), now \div 30 + 6)
        /\ ~InWindow(Val(before[u].mfa_secret), Val(req.otp), 5)

\* rejected: the code of a counter seven steps away, which no counter of the
\* window shares
C9_WitnessOutside ==
    \E u \in UserIds :
        /\ IsMfaLogin /\ req.otp # None /\ GoodTicket(u)
        /\ before[u].mfa_enabled /\ before[u].mfa_secret # None
        /\ resp.status = 401
        /\ \/ Val(req.otp) = generate_otp(Val(before[u].mfa_secret), now \div 30 + 7)
           \/ Val(req.otp) = generate_otp(Val(before[u].mfa_secret), now \div 30 - 7)

(***************************************************************************)
(* Properties of the recovery codes (SpecRecovery)                         *)
(***************************************************************************)
\* the latest request is a recovery-code login of u on a ticket that is valid
\* and whose principal has MFA configured
IsRecoveryLogin(u) ==
    /\ IsMfaLogin /\ req.recovery_code # <<>>
    /\ GoodTicket(u) /\ now < Presented.payload.exp
    /\ before[u].mfa_enabled /\ before[u].mfa_secret # None

Distinct(codes) ==
    \A i, j \in 1..Len(codes) : i # j => codes[i] # codes[j]

\* C7: a recovery code yields tokens at most once: the use that succeeds
\* removes exactly its entry from mfa_recovery_codes (the list shrinks by one,
\* the other entries stay), and the code presented is accepted no more.
C7_UsedOnce ==
    \A u \in UserIds :
        (IsRecoveryLogin(u) /\ resp.tokens) =>
            /\ \E i \in 1..Len(before[u].mfa_recovery_codes) :
                  /\ before[u].mfa_recovery_codes[i][3][3] = req.recovery_code
                  /\ users[u].mfa_recovery_codes = Pop(before[u].mfa_recovery_codes, i)
            /\ Len(users[u].mfa_recovery_codes) = Len(before[u].mfa_recovery_codes) - 1
            /\ ~IsStored(req.recovery_code, users[u].mfa_recovery_codes)

\* C8: a recovery code that was issued and has been consumed is answered
\* 401 'Invalid recovery code' in every state, the state with no code left
\* included.
C8_ConsumedIsInvalid ==
    \A u \in UserIds :
        (/\ IsRecoveryLogin(u)
         /\ \E i \in 1..Len(handed[u]) : handed[u][i] = req.recovery_code
         /\ ~IsStored(req.recovery_code, before[u].mfa_recovery_codes)) =>
            /\ resp.status = 401
            /\ resp.error = "Invalid recovery code"

\* C10: mfa_verify_view, given the current code of the secret that
\* mfa_setup_view returned, enables MFA and returns exactly 10 pairwise
\* distinct recovery codes, each validating against the hash stored at its
\* position.
C10_RoundTrip ==
    \A u \in UserIds :
        (/\ req.op = "mfa_verify"
         /\ before[u].mfa_secret # None
         /\ req.otp = Some(generate_otp(Val(before[u].mfa_secret), now \div 30))) =>
            /\ resp.status = 200
            /\ users[u].mfa_enabled
            /\ Len(resp.recovery_codes) = 10
            /\ Len(users[u].mfa_recovery_codes) = 10
            /\ \A i \in 1..10 :
                  check_password(resp.recovery_codes[i], users[u].mfa_recovery_codes[i])
            /\ Distinct(resp.recovery_codes)

(***************************************************************************)
(* What the code does guarantee about recovery codes.                      *)
(***************************************************************************)
\* a recovery-code login that succeeds removes the first entry that matches
\* the code and nothing else
EntryConsumed ==
    \A u \in UserIds :
        (IsRecoveryLogin(u) /\ resp.tokens) =>
            /\ \E i \in 1..Len(before[u].mfa_recovery_codes) :
                  /\ before[u].mfa_recovery_codes[i][3][3] = req.recovery_code
                  /\ users[u].mfa_recovery_codes = Pop(before[u].mfa_recovery_codes, i)
            /\ Len(users[u].mfa_recovery_codes) = Len(before[u].mfa_recovery_codes) - 1

\* a consumed code that is stored no more gets no tokens and changes nothing:
\* 401 while codes are left, 400 'No recovery codes available' when none is
ConsumedGetsNothing ==
    \A u \in UserIds :
        (/\ IsRecoveryLogin(u)
         /\ \E i \in 1..Len(handed[u]) : handed[u][i] = req.recovery_code
         /\ ~IsStored(req.recovery_code, before[u].mfa_recovery_codes)) =>
            /\ ~resp.tokens
            /\ users = before
            /\ IF before[u].mfa_recovery_codes = <<>>
               THEN resp.status = 400 /\ resp.error = "No recovery codes available"
               ELSE resp.status = 401 /\ resp.error = "Invalid recovery code"

\* enrolment returns 10 codes, each validating against the hash at its position
TenValidCodes ==
    \A u \in UserIds :
        (/\ req.op = "mfa_verify"
         /\ before[u].mfa_secret # None
         /\ req.otp = Some(generate_otp(Val(before[u].mfa_secret), now \div 30))) =>
            /\ resp.status = 200
            /\ users[u].mfa_enabled
            /\ Len(resp.recovery_codes) = 10
            /\ Len(users[u].mfa_recovery_codes) = 10
            /\ \A i \in 1..10 :
                  check_password(resp.recovery_codes[i], users[u].mfa_recovery_codes[i])

(***************************************************************************)
(* Properties of registration by invitation (SpecRegister)                 *)
(***************************************************************************)
\* principals created by register calls that presented invitation k
CreatedVia(k) == {a \in DOMAIN accounts : accounts[a].via = Some(k)}

\* this step answers a register call
AnswersRegister == call' # call /\ call'.op = "register"

\* this step answers a register call at once, at the checks of the invitation
AnswersAtCheck == AnswersRegister /\ procs' = procs

\* C11: for every invitation at most one principal is ever created by the
\* register calls that present its token, also when the calls interleave
\* (both pass the is_used check before either marks the invitation); a call
\* made once the invitation is marked used is refused as already used.
C11_RedeemedOnce ==
    /\ [](\A k \in DOMAIN invitations : Cardinality(CreatedVia(k)) <= 1)
    /\ [][(/\ AnswersAtCheck
           /\ call'.token # None
           /\ Val(call'.token) \in DOMAIN invitations
           /\ invitations[Val(call'.token)].is_used) =>
              (/\ call'.status = 400
               /\ call'.error = "This invitation has already been used"
               /\ accounts' = accounts)]_vars

\* two calls presented the same token at the same time: one created the
\* principal and marked the invitation, the other was stopped by the database
C11_Witness ==
    /\ call.op = "register" /\ call.status = 500 /\ call.error = "IntegrityError"
    /\ invitations[Val(call.token)].is_used
    /\ Cardinality(CreatedVia(Val(call.token))) = 1

C11_WitnessUsed ==
    call.op = "register" /\ call.error = "This invitation has already been used"

C12_WitnessExpired ==
    call.op = "register" /\ call.error = "This invitation has expired"

\* C13: a register call with a valid, unused, unexpired token and an email
\* that is not string-equal to the invitation's email is answered 400, goes no
\* further than the check, creates no principal and leaves the invitation
\* unused.
C13_EmailMustMatch ==
    /\ \A w \in Workers :
          procs[w] # Idle => procs[w].data.email = invitations[Val(procs[w].token)].email
    /\ \A k \in DOMAIN invitations :
          /\ \A a \in CreatedVia(k) : accounts[a].email = normalize_email(invitations[k].email)
          /\ invitations[k].is_used => invitations[k].used_by \subseteq CreatedVia(k)
    /\ (/\ call.op = "register"
        /\ call.token # None /\ Val(call.token) \in DOMAIN invitations
        /\ ~invitations[Val(call.token)].is_used
        /\ now <= invitations[Val(call.token)].expires_at
        /\ call.email # invitations[Val(call.token)].email) =>
           (/\ call.status = 400
            /\ call.error = "Email does not match invitation"
            /\ call.user = None)

\* the email differs from the invitation's only in the case of its domain
C13_Witness ==
    /\ call.op = "register" /\ call.error = "Email does not match invitation"
    /\ ~invitations[Val(call.token)].is_used
    /\ now <= invitations[Val(call.token)].expires_at
    /\ normalize_email(call.email) = normalize_email(invitations[Val(call.token)].email)

\* C18: no reachable state holds a principal created from an invitation whose
\* is_used is still false.
C18_CreateAndMarkAtomic ==
    \A k \in DOMAIN invitations : CreatedVia(k) # {} => invitations[k].is_used

IsRequest == call.op = "request"

\* the path of the latest call starts with /api/<area>/
UnderPrefix(area) ==
    Len(call.path) >= 3 /\ call.path[1] = "api" /\ call.path[2] = area

\* the role the area is reserved for, and the message of its rule
AreaRole(area) ==
    CASE area = "doctor" -> "provider" [] area = "patient" -> "patient" [] area = "admin" -> "admin"

AreaMessage(area) ==
    CASE area = "doctor" -> "Forbidden: Doctor Access Only"
      [] area = "patient" -> "Forbidden: Patient Access Only"
      [] area = "admin" -> "Forbidden: Admin Access Only"

Areas == {"doctor", "patient", "admin"}

PassedOn == <<call.status, call.error>> = get_response(call.path, call.caller)

\* C14: for an authenticated caller the gate answers 403 exactly when the path
\* starts with the prefix of an area and the caller's role is not the role of
\* that area, with the message of that area's rule (a patient on the provider
\* prefix gets the Doctor-area message); every other request is passed on to
\* the handler, and no rule blocks a request on another rule's prefix.
C14_GateRule ==
    (IsRequest /\ call.caller # None) =>
        LET role == accounts[Val(call.caller)].role
            blocked == {area \in Areas : UnderPrefix(area) /\ role # AreaRole(area)}
        IN  /\ call.status = 403 <=> blocked # {}
            /\ \A area \in blocked : call.error = AreaMessage(area)
            /\ blocked = {} => PassedOn

C14_Witness ==
    /\ IsRequest /\ call.caller # None
    /\ accounts[Val(call.caller)].role = "patient"
    /\ call.path = <<"api", "doctor", "test-dashboard", "">>
    /\ call.status = 403 /\ call.error = "Forbidden: Doctor Access Only"

C14_WitnessAllowed ==
    /\ IsRequest /\ call.caller # None
    /\ accounts[Val(call.caller)].role = "provider"
    /\ call.path = <<"api", "doctor", "test-dashboard", "">>
    /\ call.status = 200

\* C15 as stated: an anonymous caller on a restricted prefix is rejected with
\* the 403 a caller of the wrong role receives there.
C15_AnonymousRejected ==
    (IsRequest /\ call.caller = None) =>
        \A area \in Areas :
            UnderPrefix(area) => call.status = 403 /\ call.error = AreaMessage(area)

\* C15, amended: the gate applies no rule to an anonymous caller (no bearer
\* token, or one that does not validate): on every path, the restricted
\* prefixes included, the request is passed on to the handler, which answers
\* 401 where it requires an authenticated user.
C15_AnonymousPassedOn ==
    (IsRequest /\ call.caller = None) => (PassedOn /\ call.status # 403)

\* a bearer token that does not validate, on the provider prefix
C15_Witness ==
    /\ IsRequest /\ call.caller = None /\ call.token # None
    /\ UnderPrefix("doctor")
    /\ call.status = 401

\* C20: SendInviteView creates an invitation only for an issuer whose role is
\* admin: a principal whose role field is admin is never refused for lack of
\* the role, and one whose role is patient or provider always is.
C20_AdminRoleIssues ==
    call.op = "invite" =>
        (call.status = 403 <=> accounts[Val(call.caller)].role # "admin")

\* what the code does: the issuer must be in the group 'Admin'
InviteByGroup ==
    call.op = "invite" =>
        (call.status = 403 <=> "Admin" \notin accounts[Val(call.caller)].groups)

\* a principal whose role is not admin issued an invitation
InvitedWithoutRole ==
    /\ call.op = "invite" /\ call.status = 201
    /\ accounts[Val(call.caller)].role # "admin"

(***************************************************************************)
(* Properties of login under concurrency (SpecRace) and of what a failed   *)
(* login discloses (SpecLockout)                                           *)
(***************************************************************************)
\* C16: the six-strikes rule under parallel requests: once six wrong-password
\* logins of a principal have completed with no password accepted in
\* between, the principal is locked.
C16_SixStrikesParallel ==
    \A u \in UserIds :
        (streak[u] # None /\ Val(streak[u]) >= MAX_FAILED_ATTEMPTS + 1) =>
            users[u].locked_until # None

\* C17: for an account that is not locked, the answer to a login with an
\* unknown identifier and the answer to a login with a known identifier and a
\* wrong password are the same in status and body.
C17_GenericFailure ==
    /\ (req.op = "login" /\ req.identifier # "" /\ req.password # ""
            /\ Lookup(req.identifier) = {}) => resp = InvalidCredentials
    /\ \A u \in UserIds :
          (IsLoginOn(u) /\ ~LockedBefore(u) /\ ~User_check_password(before[u], req.password)) =>
              resp = InvalidCredentials

\* what does hold: the status of the first five failures is the 401 of an
\* unknown identifier; the body differs by the count of attempts remaining
GenericStatusOnly ==
    \A u \in UserIds :
        (IsLoginOn(u) /\ ~LockedBefore(u) /\ ~User_check_password(before[u], req.password)
            /\ before[u].failed_login_attempts < MAX_FAILED_ATTEMPTS
            /\ before[u].locked_until = None) =>
            /\ resp.status = InvalidCredentials.status
            /\ resp.error = InvalidCredentials.error
            /\ resp.remaining # None

(***************************************************************************)
(* Properties of invitations (SpecInvite)                                  *)
(***************************************************************************)
\* what verify_invite_view and register_view accept: unused, and the clock
\* not past expires_at
AcceptedAsValid(k) == ~invitations[k].is_used /\ ~(now > invitations[k].expires_at)

ValidFor(email) ==
    {k \in DOMAIN invitations : invitations[k].email = email /\ AcceptedAsValid(k)}

IsInvite == call.op = "invite"

\* C21: at every time each email has at most one invitation that
\* verify_invite_view and register_view would accept (unused, and now <=
\* expires_at); an administrator issuing for an email that has one, and no
\* account, creates nothing and is given the existing token.
C21_OneValidPerEmail ==
    /\ [](\A k \in DOMAIN invitations : Cardinality(ValidFor(invitations[k].email)) <= 1)
    /\ [][(/\ call' # call
           /\ call'.op = "invite"
           /\ InAdminGroup(Val(call'.caller))
           /\ ~\E a \in DOMAIN accounts : accounts[a].email = call'.email
           /\ ValidFor(call'.email) # {})
          => /\ invitations' = invitations
             /\ call'.token # None
             /\ call'.token \subseteq ValidFor(call'.email)]_vars

\* SendInviteView's own test of "valid" (expires_at > now) admits one
\* invitation per email
OneActivePerEmail ==
    \A k, j \in DOMAIN invitations :
        (/\ k # j
         /\ invitations[k].email = invitations[j].email
         /\ ~invitations[k].is_used /\ ~invitations[j].is_used)
        => ~(invitations[k].expires_at > now /\ invitations[j].expires_at > now)

\* C23: an invitation with is_used = true has used_at and used_by set; no
\* invitation is ever deleted and is_used never goes back to false.
C23_UsedIsRecorded ==
    /\ [](\A k \in DOMAIN invitations :
             invitations[k].is_used =>
                invitations[k].used_at # None /\ invitations[k].used_by # None)
    /\ [][\A k \in DOMAIN invitations :
             /\ k \in DOMAIN invitations'
             /\ invitations[k].is_used => invitations'[k].is_used]_vars

IsVerify == call.op = "verify"

\* C24: verify_invite_view changes nothing that is stored, and says which of
\* the three an invalid token is: not found, already used, expired.
C24_VerifyReadsOnly ==
    /\ [][call' # call /\ call'.op = "verify"
          => UNCHANGED <<users, issued, accounts, invitations, deleted>>]_vars
    /\ [](IsVerify /\ call.token # None =>
            LET k == Val(call.token)
                known == k \in DOMAIN invitations
            IN  /\ call.error = "Invalid invitation token" <=> ~known
                /\ call.error = "This invitation has already been used"
                      <=> (known /\ invitations[k].is_used)
                /\ call.error = "This invitation has expired"
                      <=> (known /\ ~invitations[k].is_used /\ now > invitations[k].expires_at)
                /\ call.status = 200 <=> (known /\ AcceptedAsValid(k)))

\* a redeemed invitation is verified, and refused as used
C24_Witness ==
    /\ IsVerify
    /\ call.error = "This invitation has already been used"
    /\ \E a \in DOMAIN accounts : accounts[a].via = call.token

\* an invitation past its expiry is verified, and refused as expired
C24_WitnessExpired == IsVerify /\ call.error = "This invitation has expired"

(***************************************************************************)
(* What a rejected call leaves behind (SpecLockout, SpecMfa)               *)
(***************************************************************************)
\* C27: a login rejected because the account is locked changes nothing:
\* failed_login_attempts and locked_until keep their values, so attempts
\* made during a lock neither raise the count nor extend the lock.
C27_LockedChangesNothing ==
    \A u \in UserIds :
        (IsLoginOn(u) /\ LockedBefore(u)) =>
            /\ users[u].failed_login_attempts = before[u].failed_login_attempts
            /\ users[u].locked_until = before[u].locked_until
            /\ users = before

\* a wrong password during a lock that has run for a while
C27_Witness ==
    \E u \in UserIds :
        /\ IsLoginOn(u) /\ LockedBefore(u)
        /\ req.password = WrongPassword
        /\ Val(before[u].locked_until) < now + 15 * 60
        /\ users[u].failed_login_attempts = 6

\* C29: mfa_login_view on a valid ticket of a principal whose mfa_enabled is
\* false or whose mfa_secret is unset answers "MFA not enabled" with no
\* tokens, for an OTP and for a recovery code that is still stored alike.
C29_NotConfiguredRefused ==
    \A u \in UserIds :
        (/\ IsMfaLogin /\ GoodTicket(u) /\ now < Presented.payload.exp
         /\ ~before[u].mfa_enabled \/ before[u].mfa_secret = None) =>
            /\ resp.status = 400
            /\ resp.error = "MFA not enabled for this user"
            /\ ~resp.tokens
            /\ users = before

\* a ticket issued while MFA was on, completed after deactivation with one of
\* the recovery codes that deactivation left stored
C29_Witness ==
    \E u \in UserIds :
        /\ IsMfaLogin /\ GoodTicket(u) /\ now < Presented.payload.exp
        /\ ~before[u].mfa_enabled
        /\ req.recovery_code # <<>>
        /\ IsStored(req.recovery_code, before[u].mfa_recovery_codes)
        /\ resp.status = 400

\* the same with an OTP, after the principal has set up a new secret
C29_WitnessOtp ==
    \E u \in UserIds :
        /\ IsMfaLogin /\ GoodTicket(u) /\ now < Presented.payload.exp
        /\ ~before[u].mfa_enabled /\ before[u].mfa_secret # None
        /\ req.otp # None
        /\ InWindow(Val(before[u].mfa_secret), Val(req.otp), 6)
        /\ resp.status = 400

\* the second factor presented does not pass: the ticket is not good, the OTP
\* is outside the window, or the recovery code is not stored
SecondFactorFails ==
    \/ Presented.key # "SECRET_KEY"
    \/ Presented.payload.type # Some("mfa_temp")
    \/ Presented.payload.exp < now
    \/ /\ Presented.payload.user_id \in UserIds
       /\ LET user == before[Presented.payload.user_id]
          IN  IF req.otp # None
              THEN user.mfa_secret = None \/ ~InWindow(Val(user.mfa_secret), Val(req.otp), 6)
              ELSE ~IsStored(req.recovery_code, user.mfa_recovery_codes)

\* C30: a failed mfa_login_view call changes no stored field of the
\* principal: the lockout fields, mfa_enabled, mfa_secret and the recovery
\* codes are as before, and no tokens are given.
C30_FailedSecondFactorChangesNothing ==
    /\ (IsMfaLogin /\ resp.status # 200) => users = before
    /\ (IsMfaLogin /\ SecondFactorFails) =>
          /\ resp.status # 200
          /\ ~resp.tokens
          /\ users = before

\* a recovery code that is not stored, on a good ticket of a principal who has codes
C30_Witness ==
    \E u \in UserIds :
        /\ IsMfaLogin /\ GoodTicket(u)
        /\ before[u].mfa_enabled /\ before[u].mfa_recovery_codes # <<>>
        /\ req.recovery_code # <<>>
        /\ resp.error = "Invalid recovery code"

\* an OTP outside the window, on a good ticket
C30_WitnessOtp ==
    \E u \in UserIds :
        /\ IsMfaLogin /\ GoodTicket(u) /\ before[u].mfa_enabled
        /\ resp.error = "Invalid OTP code"

(***************************************************************************)
(* Who writes the lockout fields (SpecAdmin)                               *)
(***************************************************************************)
LockoutFields(user) == <<user.failed_login_attempts, user.locked_until>>

MfaFields(user) == <<user.mfa_enabled, user.mfa_secret, user.mfa_recovery_codes>>

\* C28: the lockout fields are written by login_view alone and are reset
\* together: no operation brings failed_login_attempts to 0 and leaves
\* locked_until set, none clears locked_until and leaves a count other than
\* that of the reset (0, or 1 when the same login then fails); the MFA
\* endpoints change neither lockout field and login_view changes no MFA field.
C28_LockoutFieldsOwnership ==
    [][\A u \in UserIds :
          /\ LockoutFields(users'[u]) # LockoutFields(users[u]) => req'.op = "login"
          /\ (users[u].failed_login_attempts # 0 /\ users'[u].failed_login_attempts = 0)
                => users'[u].locked_until = None
          /\ (users[u].locked_until # None /\ users'[u].locked_until = None)
                => users'[u].failed_login_attempts =
                      IF req'.op = "login" /\ req'.password # CorrectPassword THEN 1 ELSE 0
          /\ MfaFields(users'[u]) # MfaFields(users[u])
                => req'.op \in {"mfa_setup", "mfa_verify", "mfa_deactivate", "regenerate", "mfa_login"}]_vars

\* the handlers of the API keep to the rule: what they change of the lockout
\* fields is changed by login_view, which clears both fields together
HandlersKeepOwnership ==
    [][req'.op \notin {"unlock_accounts", "reset_failed_attempts"} =>
          \A u \in UserIds :
              /\ LockoutFields(users'[u]) # LockoutFields(users[u]) => req'.op = "login"
              /\ (users[u].failed_login_attempts # 0 /\ users'[u].failed_login_attempts = 0)
                    => users'[u].locked_until = None
              /\ MfaFields(users'[u]) # MfaFields(users[u]) => req'.op # "login"]_vars

\* reset_failed_attempts has zeroed the count of a locked account
CountResetAlone ==
    \E u \in UserIds :
        /\ req.op = "reset_failed_attempts"
        /\ before[u].failed_login_attempts = 6
        /\ users[u].failed_login_attempts = 0
        /\ users[u].locked_until # None

(***************************************************************************)
(* The principal's row under overlapping requests (SpecInterleave)         *)
(***************************************************************************)
\* C22: in every reachable state, under any sequence or interleaving of
\* mfa_setup_view, mfa_verify_view, mfa_deactivate_view,
\* regenerate_recovery_codes_view, login_view and mfa_login_view on a
\* principal, mfa_enabled = true implies that mfa_secret is set.
C22_EnabledHasSecret ==
    \A u \in UserIds : users[u].mfa_enabled => users[u].mfa_secret # None

\* a request that loaded the row while MFA was on saves its copy after MFA
\* was deactivated: MFA is on again, with the secret of the copy
C22_Witness ==
    \E u \in UserIds :
        /\ req.op \in {"login", "regenerate", "mfa_login"}
        /\ ~before[u].mfa_enabled /\ before[u].mfa_secret = None
        /\ users[u].mfa_enabled /\ users[u].mfa_secret # None

\* a request that loaded the row before mfa_setup_view saves its copy after
\* it: the secret is unset again, MFA being off
C22_WitnessUnset ==
    \E u \in UserIds :
        /\ req.op = "login"
        /\ before[u].mfa_secret # None
        /\ users[u].mfa_secret = None /\ ~users[u].mfa_enabled

(***************************************************************************)
(* Lost updates (SpecStale, SpecCodeRace)                                  *)
(***************************************************************************)
\* worker w ends a request of kind op in this step
Ends(w, op) == procs[w].pc = op /\ procs'[w] = Idle

\* the lockout fields a login leaves behind when it finds the row `user`
LockoutAfterLogin(user, password, t) ==
    IF user.locked_until # None /\ t < Val(user.locked_until)
    THEN LockoutFields(user)
    ELSE LET count == IF user.locked_until # None THEN 0 ELSE user.failed_login_attempts
         IN  IF check_password(password, user.password) THEN <<0, None>>
             ELSE IF count + 1 > 5 THEN <<count + 1, Some(t + 15 * 60)>>
             ELSE <<count + 1, None>>

\* C25: concurrent requests on one principal's row lose no update of the
\* lockout fields: when a request ends, the count and the lock are what the
\* request makes of the values the row holds then (a login), or those values
\* (any other request) - never what an earlier read of the row held.
C25_NoLostUpdate ==
    [][\A w \in Workers :
          /\ Ends(w, "login") =>
                LockoutFields(users'[procs[w].id]) =
                    LockoutAfterLogin(users[procs[w].id], procs[w].password, now)
          /\ Ends(w, "mfa_setup") =>
                LockoutFields(users'[procs[w].id]) = LockoutFields(users[procs[w].id])]_vars

\* the lock set by a sixth failure is undone by the save of mfa_setup_view
LockOverwritten ==
    \E u \in UserIds :
        /\ req.op = "mfa_setup"
        /\ before[u].locked_until # None
        /\ users[u].locked_until = None

\* the plain text of the stored codes
Stored(user) == {user.mfa_recovery_codes[i][3][3] : i \in 1..Len(user.mfa_recovery_codes)}

\* C26: under concurrent mfa_login_view requests on one principal a recovery
\* code is accepted at most once: tokens are given for a code only if the row
\* holds it at that time, the code is then gone from the row, and no code
\* consumed earlier comes back with the write.
C26_CodeAcceptedOnce ==
    [][\A w \in Workers :
          (Ends(w, "mfa_login") /\ procs[w].recovery_code # <<>> /\ resp'.tokens) =>
              /\ procs[w].recovery_code \in Stored(users[procs[w].id])
              /\ Stored(users'[procs[w].id]) \subseteq
                    Stored(users[procs[w].id]) \ {procs[w].recovery_code}]_vars

\* one code has been accepted twice: the second request loaded the list
\* before the first removed the code
AcceptedTwice ==
    \E u \in UserIds :
        /\ req.op = "mfa_login" /\ resp.tokens
        /\ req.recovery_code \notin Stored(before[u])
        /\ Len(before[u].mfa_recovery_codes) = 9

\* a consumed code is back: the second request wrote its list, from which
\* only its own code is missing
CodeRestored ==
    \E u \in UserIds :
        /\ req.op = "mfa_login" /\ resp.tokens
        /\ Stored(users[u]) \ Stored(before[u]) # {}

(***************************************************************************)
(* Properties of the management of the second factor                      *)
(***************************************************************************)
\* the step answers a deactivation of u that carries the current password and
\* a code the stored secret gives within DEACTIVATE_WINDOW steps of now
DeactivationChecksPass(u) ==
    /\ req'.op = "mfa_deactivate"
    /\ req'.identifier = Username(u)
    /\ User_check_password(users[u], req'.password)
    /\ users[u].mfa_secret # None
    /\ InWindow(Val(users[u].mfa_secret), Val(req'.otp), DEACTIVATE_WINDOW)

\* the step switches MFA off for u
SwitchedOff(u) == users[u].mfa_enabled /\ ~users'[u].mfa_enabled

\* C31: mfa_enabled goes from true to false only in a step of
\* mfa_deactivate_view whose request carries the correct current password and
\* an OTP valid at a counter in [current - 3, current + 3]; that step clears
\* mfa_enabled and mfa_secret together and keeps mfa_recovery_codes; a
\* deactivation that fails either check changes nothing.
C31_OnlyDeactivateSwitchesOff ==
    [][\A u \in UserIds :
          /\ SwitchedOff(u) =>
                /\ DeactivationChecksPass(u)
                /\ users'[u].mfa_secret = None
                /\ users'[u].mfa_recovery_codes = users[u].mfa_recovery_codes
          /\ (req'.op = "mfa_deactivate" /\ req' # req /\ ~DeactivationChecksPass(u)) =>
                users' = users]_vars

\* a login switches MFA off
LoginSwitchesOff == \E u \in UserIds : req.op = "login" /\ before[u].mfa_enabled /\ ~users[u].mfa_enabled

\* a deactivation with both checks passed has switched MFA off
DeactivationDone ==
    \E u \in UserIds :
        /\ req.op = "mfa_deactivate" /\ resp.status = 200
        /\ before[u].mfa_enabled /\ ~users[u].mfa_enabled /\ users[u].mfa_secret = None
        /\ users[u].mfa_recovery_codes # <<>>

\* a deactivation with the right password and a code of the stored secret
\* from four steps ago is refused
DeactivationRefusedOutside ==
    \E u \in UserIds :
        /\ req.op = "mfa_deactivate" /\ resp.status = 401
        /\ req.password = CorrectPassword
        /\ users[u].mfa_enabled
        /\ \E i \in Drifts : req.otp = Some(TOTP_at(Val(users[u].mfa_secret), now, i))

\* the latest request is an enrolment confirmation by u
IsVerifyOf(u) == req.op = "mfa_verify" /\ req.identifier = Username(u)

\* the submitted code is what the secret stored before the request gives at a
\* counter in [current - 1, current + 1]
MatchesStoredSecret(u) ==
    /\ before[u].mfa_secret # None
    /\ \E c \in (now \div 30 - 1)..(now \div 30 + 1) :
          req.otp = Some(generate_otp(Val(before[u].mfa_secret), c))

\* C32: mfa_verify_view sets mfa_enabled = true and replaces the stored
\* recovery-code hashes only when the submitted code matches the stored
\* secret at a counter in [current - 1, current + 1], and then the stored
\* hashes are those of the codes it returns; with no secret set, or with a
\* code that matches only outside that window or not at all, it answers 400
\* and leaves mfa_enabled, mfa_secret and the recovery codes unchanged.
C32_VerifyEnablesOnlyOnMatch ==
    \A u \in UserIds :
        IsVerifyOf(u) =>
            IF MatchesStoredSecret(u)
            THEN /\ resp.status = 200
                 /\ users[u].mfa_enabled
                 /\ users[u].mfa_secret = before[u].mfa_secret
                 /\ Len(users[u].mfa_recovery_codes) = RECOVERY_COUNT
                 /\ \A i \in 1..RECOVERY_COUNT :
                       check_password(resp.recovery_codes[i], users[u].mfa_recovery_codes[i])
            ELSE /\ resp.status = 400
                 /\ users = before

\* a code the stored secret gives six steps away from now, and at no counter
\* of the window, is refused while MFA is on and codes are stored
C32_Witness ==
    \E u \in UserIds :
        /\ IsVerifyOf(u) /\ resp.status = 400
        /\ users[u].mfa_enabled /\ users[u].mfa_recovery_codes # <<>>
        /\ before[u].mfa_secret # None
        /\ req.otp \in {Some(TOTP_at(Val(before[u].mfa_secret), now, i)) : i \in {0 - 6, 6}}
        /\ ~MatchesStoredSecret(u)

\* a second confirmation replaces the hashes of a list one code of which was used
C32_WitnessReplaced ==
    \E u \in UserIds :
        /\ IsVerifyOf(u) /\ resp.status = 200
        /\ before[u].mfa_enabled
        /\ Len(before[u].mfa_recovery_codes) = RECOVERY_COUNT - 1
        /\ Len(users[u].mfa_recovery_codes) = RECOVERY_COUNT

\* a confirmation without a secret is refused
C32_WitnessNoSecret ==
    \E u \in UserIds :
        /\ IsVerifyOf(u) /\ resp.status = 400 /\ req.otp # Some(BadOtp)
        /\ before[u].mfa_secret = None

\* the step answers a request that a TOTP code got through: a login completed
\* with a code, or a deactivation
AcceptedByCode(u) ==
    /\ resp'.status = 200
    /\ req'.otp # None
    /\ \/ req'.op = "mfa_login" /\ resp'.tokens /\ Val(req'.temp_token).payload.user_id = u
       \/ req'.op = "mfa_deactivate" /\ req'.identifier = Username(u)
    /\ req' # req \/ resp' # resp \/ users' # users \/ issued' # issued

\* C33: mfa_setup_view stores the secret it returns and never changes
\* mfa_enabled (false stays false, true stays true while the secret is
\* replaced), and mfa_login_view and mfa_deactivate_view accept only codes
\* of the secret stored at the time, within their windows.
C33_SetupKeepsEnabled ==
    [][\A u \in UserIds :
          /\ (req'.op = "mfa_setup" /\ req'.identifier = Username(u)) =>
                /\ users'[u].mfa_enabled = users[u].mfa_enabled
                /\ users' # users => users'[u].mfa_secret = resp'.secret
          /\ AcceptedByCode(u) =>
                /\ users[u].mfa_secret # None
                /\ InWindow(Val(users[u].mfa_secret), Val(req'.otp), LOGIN_WINDOW)]_vars

\* a setup switches MFA back on or off
SetupChangesEnabled ==
    \E u \in UserIds : req.op = "mfa_setup" /\ before[u].mfa_enabled # users[u].mfa_enabled

\* a setup on a principal with MFA on replaces the secret
SecretReplaced ==
    \E u \in UserIds :
        /\ req.op = "mfa_setup" /\ users[u].mfa_enabled /\ before[u].mfa_enabled
        /\ before[u].mfa_secret # None /\ before[u].mfa_secret # users[u].mfa_secret

\* a code of another secret, and of no counter of the stored one, is refused
\* by mfa_login_view while MFA is on
OldCodeRefused ==
    \E u \in UserIds, s \in Secrets :
        /\ req.op = "mfa_login" /\ resp.status = 401 /\ resp.error = "Invalid OTP code"
        /\ users[u].mfa_enabled /\ Some(s) # users[u].mfa_secret
        /\ req.otp = Some(TOTP_at(s, now, 0))

\* the latest request is a regeneration of u's recovery codes
IsRegenerate(u) == req.op = "regenerate" /\ req.identifier = Username(u)

\* the plain texts of the stored hashes
PlainCodes(hashed_codes) == {hashed_codes[i][3][3] : i \in 1..Len(hashed_codes)}

\* mfa_login_view finds the code in the list
Accepted(recovery_code, hashed_codes) == FirstMatch(recovery_code, hashed_codes) # 0

\* the stored list is the hashes of the ten codes of the answer, nothing else changed
ListReplaced(u) ==
    /\ resp.status = 200
    /\ Len(resp.recovery_codes) = RECOVERY_COUNT
    /\ Len(users[u].mfa_recovery_codes) = RECOVERY_COUNT
    /\ \A i \in 1..RECOVERY_COUNT :
          check_password(resp.recovery_codes[i], users[u].mfa_recovery_codes[i])
    /\ users[u] = [before[u] EXCEPT !.mfa_recovery_codes = users[u].mfa_recovery_codes]

\* C34 as stated: the correct password is the only precondition of
\* regenerate_recovery_codes_view; with it the stored list is replaced by the
\* hashes of 10 new codes and none of the codes stored before is accepted
\* afterwards; with a wrong password the stored codes are unchanged.
C34_PasswordOnly ==
    \A u \in UserIds :
        IsRegenerate(u) =>
            IF User_check_password(before[u], req.password)
            THEN /\ ListReplaced(u)
                 /\ \A c \in PlainCodes(before[u].mfa_recovery_codes) :
                       ~Accepted(c, users[u].mfa_recovery_codes)
            ELSE users = before

\* C34, amended: regenerate_recovery_codes_view requires the correct password
\* and MFA to be enabled; then the stored list is replaced by the hashes of
\* the 10 codes of the answer, so a code stored before is accepted afterwards
\* only if it is one of these; with a wrong password or with MFA off it
\* answers 400 and the stored codes are unchanged.
C34_PasswordAndMfaOn ==
    \A u \in UserIds :
        IsRegenerate(u) =>
            IF User_check_password(before[u], req.password) /\ before[u].mfa_enabled
            THEN /\ ListReplaced(u)
                 /\ \A c \in PlainCodes(before[u].mfa_recovery_codes) :
                       Accepted(c, users[u].mfa_recovery_codes) =>
                           \E i \in 1..RECOVERY_COUNT : resp.recovery_codes[i] = c
            ELSE /\ resp.status = 400
                 /\ users = before

\* a regeneration after which a code stored before is no longer accepted
C34_Witness ==
    \E u \in UserIds :
        /\ IsRegenerate(u) /\ resp.status = 200
        /\ Len(before[u].mfa_recovery_codes) = RECOVERY_COUNT - 1
        /\ \E c \in PlainCodes(before[u].mfa_recovery_codes) :
              ~Accepted(c, users[u].mfa_recovery_codes)

\* the right password is refused while MFA is off
RegenerateRefusedMfaOff ==
    \E u \in UserIds :
        /\ IsRegenerate(u) /\ resp.status = 400
        /\ req.password = CorrectPassword /\ ~users[u].mfa_enabled

\* a code stored before the regeneration is drawn again and stays accepted
OldCodeDrawnAgain ==
    \E u \in UserIds :
        /\ IsRegenerate(u) /\ resp.status = 200
        /\ \E c \in PlainCodes(before[u].mfa_recovery_codes) :
              Accepted(c, users[u].mfa_recovery_codes)

(***************************************************************************)
(* Properties of the completion of an MFA login                            *)
(***************************************************************************)
\* what the latest request supplies (an empty string is not a value)
SuppliesOtp == req.otp # None
SuppliesRecoveryCode == req.recovery_code # <<>>

\* the presented token is not a ticket the server signed
NotATicket == Presented.key # "SECRET_KEY" \/ Presented.payload.type # Some("mfa_temp")

C35_WitnessNeither ==
    /\ req.op = "mfa_login" /\ ~SuppliesOtp /\ ~SuppliesRecoveryCode
    /\ \E u \in UserIds : GoodTicket(u) /\ users[u].mfa_enabled
    /\ resp.status = 400

\* a request with one factor and a token that is not a ticket is answered 401
C35_WitnessOne ==
    /\ req.op = "mfa_login" /\ SuppliesOtp /\ ~SuppliesRecoveryCode
    /\ NotATicket /\ resp.status = 401

(***************************************************************************)
(* Properties of the gate for callers without a valid token                *)
(***************************************************************************)
\* the latest request carried no bearer token, or one that does not parse or
\* validate: wrong signature, not an access token, expired, or of no active
\* principal
BearerFails ==
    \/ call.token = None
    \/ LET token == Val(call.token)
       IN  \/ token.key # "SECRET_KEY"
           \/ token.payload.token_type # Some("access")
           \/ token.payload.exp <= now
           \/ token.payload.user_id \notin DOMAIN accounts
           \/ ~accounts[token.payload.user_id].is_active

\* C36: when no bearer token is sent, or the token fails to parse or
\* validate, the caller stays anonymous and RoleMiddleware answers nothing of
\* its own: on every path the answer is the one the handler gives an
\* anonymous caller, never one of the gate's 403 messages.
C36_FailedTokenIsAnonymous ==
    (IsRequest /\ BearerFails) =>
        /\ call.caller = None
        /\ <<call.status, call.error>> = get_response(call.path, None)
        /\ call.error \notin {AreaMessage(area) : area \in Areas}

\* a token of the administrator signed with another key, on the admin prefix
C36_Witness ==
    /\ IsRequest /\ call.token # None
    /\ Val(call.token).key # "SECRET_KEY"
    /\ Val(call.token).payload.user_id = SeedAdmin
    /\ UnderPrefix("admin") /\ call.path \in Routes
    /\ call.status = 401

\* no token at all, on a path outside the three areas
C36_WitnessNoToken ==
    /\ IsRequest /\ call.token = None
    /\ call.path = <<"api", "auth", "user", "">>
    /\ call.status = 401

\* an MFA ticket as bearer token, on a path no handler serves
C36_WitnessTicket ==
    /\ IsRequest /\ call.token # None
    /\ Val(call.token).payload.type = Some("mfa_temp")
    /\ call.path \notin Routes /\ call.status = 404

(***************************************************************************)
(* Properties of the MFA-pending ticket                                    *)
(***************************************************************************)
\* the factor of the latest request is good for the row stored before it
FactorValid(u) ==
    \/ /\ req.otp # None /\ before[u].mfa_secret # None
       /\ InWindow(Val(before[u].mfa_secret), Val(req.otp), LOGIN_WINDOW)
    \/ /\ req.recovery_code # <<>>
       /\ IsStored(req.recovery_code, before[u].mfa_recovery_codes)

\* C37: an MFA-pending ticket is not single-use.  Whatever happened before,
\* wrong codes and completed logins with the same ticket included, a ticket
\* presented to mfa_login_view before its expiry while MFA is enabled is
\* never refused as a ticket, and the request yields tokens exactly when its
\* factor is valid.
C37_TicketNotSingleUse ==
    \A u \in UserIds :
        (IsMfaLogin /\ GoodTicket(u) /\ now < Presented.payload.exp /\ MfaConfigured(before[u])) =>
            /\ resp.error \notin {"Invalid or expired temporary token", "User not found",
                                  "MFA not enabled for this user"}
            /\ resp.tokens <=> FactorValid(u)

\* Tokens are given for a code, after a recovery code was consumed, before
\* the clock has moved: every ticket issued so far is the one presented (same
\* principal, same second), so this ticket has produced tokens before.
C37_Witness ==
    \E u \in UserIds :
        /\ now = StartTime
        /\ IsMfaLogin /\ GoodTicket(u) /\ req.otp # None
        /\ resp.tokens
        /\ Len(before[u].mfa_recovery_codes) = RECOVERY_COUNT - 1

\* What a single-use ticket would give, and the program does not: no
\* completed login is followed by another with the same ticket
TicketUsedOnce ==
    [][~ /\ IsMfaLogin /\ resp.tokens
         /\ req'.op = "mfa_login" /\ resp'.tokens
         /\ req'.temp_token = req.temp_token
         /\ req' # req]_vars

\* Likewise not satisfied: no wrong code is followed by a completed login
\* with the same ticket
NoRetryAfterWrongCode ==
    [][~ /\ IsMfaLogin /\ resp.status = 401 /\ resp.error = "Invalid OTP code"
         /\ req'.op = "mfa_login" /\ resp'.tokens
         /\ req'.temp_token = req.temp_token]_vars

(***************************************************************************)
(* Properties of the lockout fields under concurrent logins (SpecLockRace) *)
(***************************************************************************)
\* C38: in every state reached through login_view calls, handled in sequence
\* or overlapping, failed_login_attempts is within 0..6, and locked_until is
\* set only when failed_login_attempts is 6, the count that set the lock.
C38_CountBoundedLockAtSix ==
    \A u \in UserIds :
        /\ users[u].failed_login_attempts \in 0..(MAX_FAILED_ATTEMPTS + 1)
        /\ users[u].locked_until # None =>
              users[u].failed_login_attempts = MAX_FAILED_ATTEMPTS + 1

\* two overlapping wrong-password logins both set the lock: the second save
\* writes count 6 and the lock over count 6 and the lock
C38_Witness ==
    \E u \in UserIds :
        /\ req.op = "login"
        /\ before[u].locked_until # None /\ before[u].failed_login_attempts = MAX_FAILED_ATTEMPTS + 1
        /\ users[u].locked_until # None /\ users[u].failed_login_attempts = MAX_FAILED_ATTEMPTS + 1
        /\ resp = TooManyResponse

\* a lock lapsed, was reset by a wrong-password login, and a second lock is set
C38_WitnessRelock ==
    \E u \in UserIds :
        /\ now > StartTime
        /\ users[u].locked_until # None /\ Val(users[u].locked_until) > now
        /\ users[u].failed_login_attempts = MAX_FAILED_ATTEMPTS + 1

(***************************************************************************)
(* The number of attempts login_view reports as remaining (SpecLockout)    *)
(***************************************************************************)
\* C40: after the k-th wrong password in a row (1 <= k <= 5, counted from a
\* principal with no failure recorded and no lock) login_view answers 401
\* and reports 6 - k attempts remaining, and that is the number of further
\* wrong passwords in a row after which the account locks: the count stored
\* plus the number reported is the count that locks, and one less is not.
C40_RemainingIsSixMinusK ==
    \A u \in UserIds :
        (IsLoginOn(u) /\ streak[u] # None /\ Val(streak[u]) \in 1..5) =>
            LET k == Val(streak[u])
                stored == users[u].failed_login_attempts
            IN  /\ resp.status = 401
                /\ resp.remaining = Some(6 - k)
                /\ LockThreshold(stored + (6 - k))
                /\ ~LockThreshold(stored + (6 - k) - 1)

\* the fifth wrong password in a row reports one attempt remaining
C40_Witness ==
    \E u \in UserIds :
        /\ IsLoginOn(u) /\ streak[u] = Some(5)
        /\ resp.status = 401 /\ resp.remaining = Some(1)
        /\ users[u].failed_login_attempts = 5 /\ users[u].locked_until = None

\* the wrong password after a report of one attempt remaining locks
C40_WitnessNextLocks ==
    \E u \in UserIds :
        /\ IsLoginOn(u) /\ streak[u] = Some(6)
        /\ before[u].failed_login_attempts = 5
        /\ resp = TooManyResponse /\ users[u].locked_until # None

(***************************************************************************)
(* Properties of role changes by concurrent administrators (SpecRoleRace)  *)
(***************************************************************************)
Admins == {a \in DOMAIN accounts : accounts[a].role = "admin"}

\* C39: through update_role calls, one after another or overlapping, a
\* principal with role admin remains (the seeded administrator exists at the
\* start); a call succeeds only for a caller whose role is admin and who does
\* not target the own id, so two administrators demoting each other at the
\* same time cannot leave the system without an administrator.
C39_AdminRemains ==
    /\ Admins # {}
    /\ (call.op = "update_role" /\ call.status = 200) =>
          /\ call.caller # call.user
          /\ accounts[Val(call.caller)].role = "admin"

\* no administrator is left
NoAdminLeft == Admins = {}

\* a role change is made for a caller who is no administrator any more
DemotedCallerSucceeds ==
    /\ call.op = "update_role" /\ call.status = 200
    /\ accounts[Val(call.caller)].role # "admin"

\* a caller targeting the own id is refused
SelfTargetRefused ==
    /\ call.op = "update_role" /\ call.caller = call.user
    /\ call.status = 400 /\ call.error = "Cannot change your own role"
====
